---- MODULE Spec2Model ----
(***************************************************************************)
(* Recommendation & ranking engine of the GitHub README generator:         *)
(*   lib/githubInspector.ts   normalizeRepo                                *)
(*   lib/repoRanker.ts        filterAndRankRepos, extractLanguages         *)
(*   lib/suggestionsEngine.ts generateSuggestions                          *)
(*   lib/markdownFormatter.ts generateHeuristicRecommendations             *)
(*   app/api/github/inspect   POST (the pipeline that chains them)         *)
(*   app/page.tsx             applySuggestion, applyHeuristicRecommendation,*)
(*                            inspectGitHub, the commit flow, generate     *)
(*   app/api/github/commit-readme POST, lib/githubCommit.ts commitReadme   *)
(*   lib/markdownFormatter.ts formatReadme (the local generator)           *)
(*                                                                         *)
(* Encoding of JavaScript values:                                          *)
(*   - null is the string Null; a string is falsy when it is Null or "".   *)
(*   - an optional field (data?, suggestedAction?, value?) is a sequence   *)
(*     of length 0 (absent) or 1 (present).                                *)
(*   - a timestamp string (updated_at / lastUpdated) is the sequence of    *)
(*     its digits; "" is <<>>.  Fixed-format ISO-8601 UTC strings are      *)
(*     order-isomorphic to such digit strings.                             *)
(*   - time is counted in ticks, TicksPerDay ticks to the day.             *)
(***************************************************************************)
EXTENDS Integers, Sequences, FiniteSets, TLC

VARIABLES
    pc,               \* which entry point is running / has returned
    rawRepos,         \* GitHubRepoRaw[] returned by fetchPublicRepos
    now,              \* the Date.now() snapshot of generateSuggestions
    repos,            \* GitHubRepoNormalized[] (ranked list)
    languages,        \* string[] passed to generateSuggestions
    suggestions,      \* Suggestion[]
    heuristicsInput,  \* HeuristicsInput {userInputs, githubData}
    recommendations,  \* HeuristicRecommendation[]
    inputs,           \* page.tsx: the ReadmeInputs state of the form
    prevInputs,       \* the inputs that the last Apply click was made on
    suggestion,       \* the argument of the last applySuggestion call
    heuristicRecs,    \* page.tsx: the HeuristicRecommendation[] state shown
    githubDataForHeuristics,  \* page.tsx: the facts kept for the engine
    rec,              \* the argument of the last applyHeuristicRecommendation call
    applications,     \* how many times an item has been applied in a row
    inspecting,       \* page.tsx: an inspection request is in flight
    inspectError,     \* page.tsx: string | null
    githubUser,       \* page.tsx: the connected GitHub user, or null
    commitState,      \* page.tsx: the step of the commit flow and what it fetched
    commitConfirmed,  \* page.tsx: the confirmation checkbox
    remote,           \* GitHub: the profile repository and its README.md
    request,          \* the request that /api/github/commit-readme is to handle
    route,            \* the commit handler between fetchCurrentReadme and the PUT
    response,         \* the answer of the route on its way to the caller
    written,          \* the last write of README.md that the route performed
    markdown,         \* page.tsx: the markdown shown in the preview
    loading,          \* page.tsx: a generate() call has not finished
    timer,            \* page.tsx: the pending debounce timeout and its closure
    generating        \* the generate-readme requests that are not yet answered

\* the state of page.tsx around applyHeuristicRecommendation
recVars == <<heuristicRecs, githubDataForHeuristics, rec, applications>>

\* the state of page.tsx around inspectGitHub
inspectVars == <<inspecting, inspectError>>

\* the state of page.tsx and of GitHub around the commit flow
commitVars == <<githubUser, commitState, commitConfirmed, remote, request, route,
                response, written>>

\* the state of page.tsx around generate()
previewVars == <<markdown, loading, timer, generating>>

vars == <<pc, rawRepos, now, repos, languages, suggestions,
          heuristicsInput, recommendations, inputs, prevInputs, suggestion,
          recVars, inspectVars, commitVars, previewVars>>

\* useState([]), useState(null): nothing recommended, nothing applied
IdleRec ==
    /\ heuristicRecs = <<>>
    /\ githubDataForHeuristics = <<>>
    /\ rec = <<>>
    /\ applications = 0

\* useState(false), useState(null)
IdleInspect ==
    /\ inspecting = FALSE
    /\ inspectError = "<null>"

\* useState(null), useState({ step: 'idle' }), useState(false); no profile
\* repository, nothing requested and nothing written
IdleCommit ==
    /\ githubUser = <<>>
    /\ commitState = [ step |-> "idle", currentReadme |-> "<null>", readmeSha |-> 0,
                       error |-> "<null>" ]
    /\ commitConfirmed = FALSE
    /\ remote = [ repoExists |-> FALSE, content |-> "<null>", sha |-> 0 ]
    /\ request = <<>>
    /\ route = <<>>
    /\ response = <<>>
    /\ written = <<>>

\* the debounce effect: the pending timeout is replaced by one that will call
\* generate on the inputs of this render
debounceEffect(s0) == << s0 >>

\* useState(''), useState(false), and no page mounted: no timeout pending
IdlePreview ==
    /\ markdown = ""
    /\ loading = FALSE
    /\ timer = <<>>
    /\ generating = <<>>

\* the page after its first render: the debounce effect has run once
MountedPreview ==
    /\ markdown = ""
    /\ loading = FALSE
    /\ timer = debounceEffect(inputs)
    /\ generating = <<>>

----------------------------------------------------------------------------
(* Bounds of the model *)

MaxRaw == 3         \* longest raw repository list fetched
MaxRanked == 5      \* longest ranked list handed to generateSuggestions
TicksPerDay == 2    \* resolution of the clock
MaxRepoCount == 4   \* largest repoCount in githubData

----------------------------------------------------------------------------
(* JavaScript helpers *)

Null == "<null>"

Truthy(s) == s # Null /\ s # ""

\* a || b on strings
JsOr(a, b) == IF Truthy(a) THEN a ELSE b

Range(s) == { s[i] : i \in 1..Len(s) }

Min(a, b) == IF a <= b THEN a ELSE b

\* Array.prototype.slice(0, end)
Slice(s, end) == SubSeq(s, 1, Min(Len(s), end))

\* Array.prototype.map(f) for the two record shapes is written inline.

RECURSIVE Join(_, _)
\* Array.prototype.join(sep) on strings
Join(s, sep) ==
    IF s = <<>> THEN ""
    ELSE IF Len(s) = 1 THEN s[1]
    ELSE s[1] \o sep \o Join(Tail(s), sep)

RECURSIVE localeCompare(_, _)
\* a.localeCompare(b) on timestamp strings: -1, 0 or 1
localeCompare(a, b) ==
    IF a = <<>> THEN (IF b = <<>> THEN 0 ELSE -1)
    ELSE IF b = <<>> THEN 1
    ELSE IF Head(a) < Head(b) THEN -1
    ELSE IF Head(a) > Head(b) THEN 1
    ELSE localeCompare(Tail(a), Tail(b))

RECURSIVE DecimalValue(_)
DecimalValue(s) ==
    IF s = <<>> THEN 0
    ELSE 10 * DecimalValue(SubSeq(s, 1, Len(s) - 1)) + s[Len(s)]

\* new Date(s).getTime(): <<t>> for a timestamp, <<>> for NaN (Invalid Date)
DateGetTime(s) == IF s = <<>> THEN <<>> ELSE <<DecimalValue(s)>>

----------------------------------------------------------------------------
(* lib/githubInspector.ts *)

normalizeRepoKeepsFalsyLanguage(raw) ==
    [ name        |-> raw.name,
      description |-> JsOr(raw.description, ""),
      language    |-> JsOr(raw.language, ""),
      stars       |-> raw.stargazers_count,
      lastUpdated |-> raw.updated_at ]

normalizeRepo(raw) ==
    [ name        |-> raw.name,
      description |-> JsOr(raw.description, ""),
      language    |-> JsOr(raw.language, "Unknown"),
      stars       |-> raw.stargazers_count,
      lastUpdated |-> raw.updated_at ]

----------------------------------------------------------------------------
(* lib/repoRanker.ts *)

filterPredicateKeepsEmpty(r) ==
    IF r.fork THEN FALSE
    ELSE IF r.archived THEN FALSE
    ELSE TRUE

\* the callback of rawRepos.filter
filterPredicate(r) ==
    IF r.fork THEN FALSE
    ELSE IF r.archived THEN FALSE
    ELSE IF r.size = 0 THEN FALSE
    ELSE TRUE

sortComparatorOldestFirst(a, b) ==
    IF b.stargazers_count # a.stargazers_count
    THEN b.stargazers_count - a.stargazers_count
    ELSE localeCompare(a.updated_at, b.updated_at)

\* the callback of [...filtered].sort: negative when a goes before b
sortComparator(a, b) ==
    IF b.stargazers_count # a.stargazers_count
    THEN b.stargazers_count - a.stargazers_count
    ELSE localeCompare(b.updated_at, a.updated_at)

\* e placed behind every element that does not have to follow it
InsertSorted(s, e) ==
    LET after == { k \in 1..Len(s) : sortComparator(s[k], e) > 0 }
        at    == IF after = {} THEN Len(s) + 1
                 ELSE CHOOSE k \in after : \A j \in after : k <= j
    IN  SubSeq(s, 1, at - 1) \o <<e>> \o SubSeq(s, at, Len(s))

RECURSIVE ArraySort(_)
\* Array.prototype.sort(sortComparator): a stable sort (ECMAScript 2019)
ArraySort(s) ==
    IF s = <<>> THEN <<>>
    ELSE InsertSorted(ArraySort(SubSeq(s, 1, Len(s) - 1)), s[Len(s)])

filterAndRankRepos(raw) ==
    LET filtered == SelectSeq(raw, filterPredicate)
        sorted   == ArraySort(filtered)
    IN  [ i \in 1..Len(sorted) |-> normalizeRepo(sorted[i]) ]

RECURSIVE langSetAddKeepsUnknown(_, _)
langSetAddKeepsUnknown(rs, acc) ==
    IF rs = <<>> THEN acc
    ELSE LET l == Head(rs).language
         IN  langSetAddKeepsUnknown(Tail(rs),
                 IF Truthy(l) /\ l \notin Range(acc)
                 THEN Append(acc, l) ELSE acc)

RECURSIVE langSetAdd(_, _)
\* the for-loop of extractLanguages; acc is the Set in insertion order
langSetAdd(rs, acc) ==
    IF rs = <<>> THEN acc
    ELSE LET l == Head(rs).language
         IN  langSetAdd(Tail(rs),
                 IF Truthy(l) /\ l # "Unknown" /\ l \notin Range(acc)
                 THEN Append(acc, l) ELSE acc)

extractLanguages(rs) == langSetAdd(rs, <<>>)

----------------------------------------------------------------------------
(* lib/suggestionsEngine.ts *)

TOP_REPOS_LIMIT == 4
RECENT_DAYS_THRESHOLD == 180

NoData == <<>>
DataRepos(rs)     == << [ repos |-> <<rs>>, languages |-> <<>>, project |-> <<>> ] >>
DataLanguages(ls) == << [ repos |-> <<>>, languages |-> <<ls>>, project |-> <<>> ] >>
DataProject(p)    == << [ repos |-> <<>>, languages |-> <<>>, project |-> <<p>> ] >>

NoReposMessage == "No public repositories found for this user."
NoRecentMessage == "Your profile has no recently active repositories (last 6 months)."

repoNames(rs) == [ i \in 1..Len(rs) |-> rs[i].name ]

isRecentStrict(r, t) ==
    LET updated == DateGetTime(r.lastUpdated)
    IN  /\ updated # <<>>
        /\ (t - updated[1]) < RECENT_DAYS_THRESHOLD * TicksPerDay

\* the callback of repos.filter: daysSince <= RECENT_DAYS_THRESHOLD, where
\* daysSince = (now - updated) / ticks-per-day; a comparison with NaN is false
isRecent(r, t) ==
    LET updated == DateGetTime(r.lastUpdated)
    IN  /\ updated # <<>>
        /\ (t - updated[1]) <= RECENT_DAYS_THRESHOLD * TicksPerDay

featureTopReposSkipsFirst(rs) ==
    IF Len(rs) > 0
    THEN LET topRepos == SubSeq(rs, 2, Min(Len(rs), TOP_REPOS_LIMIT + 1))
         IN  << [ type    |-> "repo",
                  message |-> "We recommend featuring these repositories: "
                              \o Join(repoNames(topRepos), ", "),
                  data    |-> DataRepos(topRepos) ] >>
    ELSE << [ type |-> "warning", message |-> NoReposMessage, data |-> NoData ] >>

\* 1. Recommend top repos to feature
featureTopRepos(rs) ==
    IF Len(rs) > 0
    THEN LET topRepos == Slice(rs, TOP_REPOS_LIMIT)
         IN  << [ type    |-> "repo",
                  message |-> "We recommend featuring these repositories: "
                              \o Join(repoNames(topRepos), ", "),
                  data    |-> DataRepos(topRepos) ] >>
    ELSE << [ type |-> "warning", message |-> NoReposMessage, data |-> NoData ] >>

recentActivityCheckUnguarded(rs, t) ==
    LET Recent(r) == isRecent(r, t)
        recentRepos == SelectSeq(rs, Recent)
    IN  IF Len(recentRepos) = 0
        THEN << [ type |-> "warning", message |-> NoRecentMessage, data |-> NoData ] >>
        ELSE <<>>

\* 2. Check for recent activity
recentActivityCheck(rs, t) ==
    LET Recent(r) == isRecent(r, t)
        recentRepos == SelectSeq(rs, Recent)
    IN  IF Len(rs) > 0 /\ Len(recentRepos) = 0
        THEN << [ type |-> "warning", message |-> NoRecentMessage, data |-> NoData ] >>
        ELSE <<>>

\* 3. Detected languages
detectedLanguages(ls) ==
    IF Len(ls) > 0
    THEN << [ type    |-> "section",
              message |-> "Primary languages detected: " \o Join(ls, ", "),
              data    |-> DataLanguages(ls) ] >>
    ELSE <<>>

individualRepoSuggestionsNoDefault(rs) ==
    LET topRepos == Slice(rs, TOP_REPOS_LIMIT)
    IN  [ i \in 1..Len(topRepos) |->
            [ type    |-> "repo",
              message |-> "Add \"" \o topRepos[i].name \o "\" to featured projects",
              data    |-> DataProject([ name   |-> topRepos[i].name,
                                        impact |-> topRepos[i].description ]) ] ]

\* 4. Generate individual repo suggestions for apply
individualRepoSuggestions(rs) ==
    LET topRepos == Slice(rs, TOP_REPOS_LIMIT)
    IN  [ i \in 1..Len(topRepos) |->
            [ type    |-> "repo",
              message |-> "Add \"" \o topRepos[i].name \o "\" to featured projects",
              data    |-> DataProject([ name   |-> topRepos[i].name,
                                        impact |-> JsOr(topRepos[i].description,
                                                        "A project on GitHub") ]) ] ]

\* t is the value of Date.now() read once at the top of the function
generateSuggestions(rs, ls, t) ==
    featureTopRepos(rs) \o recentActivityCheck(rs, t)
        \o detectedLanguages(ls) \o individualRepoSuggestions(rs)

----------------------------------------------------------------------------
(* lib/markdownFormatter.ts: the heuristics engine *)
(* name and role are sequences of characters, so that trim() is computed;   *)
(* githubData is <<>> for null and <<gd>> otherwise; forkRatio is kept in   *)
(* hundredths.                                                              *)

STRONG_REPO_STAR_THRESHOLD == 5
HIGH_STAR_THRESHOLD == 50

Whitespace == { " ", "\t", "\n" }

RECURSIVE TrimStart(_)
TrimStart(s) ==
    IF s # <<>> /\ Head(s) \in Whitespace THEN TrimStart(Tail(s)) ELSE s

RECURSIVE TrimEnd(_)
TrimEnd(s) ==
    IF s # <<>> /\ s[Len(s)] \in Whitespace
    THEN TrimEnd(SubSeq(s, 1, Len(s) - 1)) ELSE s

\* String.prototype.trim()
Trim(s) == TrimEnd(TrimStart(s))

NoAction == <<>>
Action(type, target, value) == << [ type |-> type, target |-> target, value |-> value ] >>

Rec(type, message, explanation, action) ==
    [ recommendationType |-> type, message |-> message,
      explanation |-> explanation, suggestedAction |-> action ]

disableProjectsRuleIgnoresSection(userInputs, gd) ==
    IF gd.repoCount = 0 \/ (~gd.hasRecentActivity /\ Len(gd.topRepos) = 0)
    THEN << Rec("section", "Consider hiding the Featured Projects section",
                "Your GitHub profile shows no active repositories. A projects section without content may weaken your profile.",
                Action("disable", "projects", FALSE)) >>
    ELSE <<>>

\* No active repos -> recommend disabling Projects section
disableProjectsRule(userInputs, gd) ==
    IF /\ gd.repoCount = 0 \/ (~gd.hasRecentActivity /\ Len(gd.topRepos) = 0)
       /\ userInputs.sections.projects
    THEN << Rec("section", "Consider hiding the Featured Projects section",
                "Your GitHub profile shows no active repositories. A projects section without content may weaken your profile.",
                Action("disable", "projects", FALSE)) >>
    ELSE <<>>

enableProjectsRuleAboveThreshold(userInputs, gd) ==
    LET Strong(r) == r.stars > STRONG_REPO_STAR_THRESHOLD
        strongRepos == SelectSeq(gd.topRepos, Strong)
    IN  IF Len(strongRepos) >= 3 /\ ~userInputs.sections.projects
        THEN << Rec("section", "Consider enabling the Featured Projects section",
                    "You have " \o ToString(Len(strongRepos)) \o " repositories with "
                        \o ToString(STRONG_REPO_STAR_THRESHOLD)
                        \o "+ stars. Showcasing these could strengthen your profile.",
                    Action("enable", "projects", TRUE)) >>
        ELSE <<>>

enableProjectsRuleIgnoresSection(userInputs, gd) ==
    LET Strong(r) == r.stars >= STRONG_REPO_STAR_THRESHOLD
        strongRepos == SelectSeq(gd.topRepos, Strong)
    IN  IF Len(strongRepos) >= 3
        THEN << Rec("section", "Consider enabling the Featured Projects section",
                    "You have " \o ToString(Len(strongRepos)) \o " repositories with "
                        \o ToString(STRONG_REPO_STAR_THRESHOLD)
                        \o "+ stars. Showcasing these could strengthen your profile.",
                    Action("enable", "projects", TRUE)) >>
        ELSE <<>>

\* 3+ strong repos -> recommend enabling Featured Projects
enableProjectsRule(userInputs, gd) ==
    LET Strong(r) == r.stars >= STRONG_REPO_STAR_THRESHOLD
        strongRepos == SelectSeq(gd.topRepos, Strong)
    IN  IF Len(strongRepos) >= 3 /\ ~userInputs.sections.projects
        THEN << Rec("section", "Consider enabling the Featured Projects section",
                    "You have " \o ToString(Len(strongRepos)) \o " repositories with "
                        \o ToString(STRONG_REPO_STAR_THRESHOLD)
                        \o "+ stars. Showcasing these could strengthen your profile.",
                    Action("enable", "projects", TRUE)) >>
        ELSE <<>>

\* No detected languages -> recommend manual tech stack
enableTechStackRule(userInputs, gd) ==
    IF Len(gd.primaryLanguages) = 0 /\ ~userInputs.sections.techStack
    THEN << Rec("section", "Consider adding a Tech Stack section manually",
                "No programming languages were detected from your repositories. Adding your skills manually will help visitors understand your expertise.",
                Action("enable", "techStack", TRUE)) >>
    ELSE <<>>

populateTechStackRuleFirstThree(userInputs, gd) ==
    IF Len(gd.primaryLanguages) > 0 /\ Len(userInputs.techStack) = 0
    THEN << Rec("section", "Your tech stack is empty but we detected languages",
                "Languages like " \o Join(Slice(gd.primaryLanguages, 3), ", ")
                    \o " were found in your repos. Consider adding them to your tech stack.",
                Action("change", "techStack", Slice(gd.primaryLanguages, 3))) >>
    ELSE <<>>

\* Has languages but tech stack is empty -> suggest populating it
populateTechStackRule(userInputs, gd) ==
    IF Len(gd.primaryLanguages) > 0 /\ Len(userInputs.techStack) = 0
    THEN << Rec("section", "Your tech stack is empty but we detected languages",
                "Languages like " \o Join(Slice(gd.primaryLanguages, 3), ", ")
                    \o " were found in your repos. Consider adding them to your tech stack.",
                Action("change", "techStack", Slice(gd.primaryLanguages, 5))) >>
    ELSE <<>>

noDataSectionRulesWhenDisabled(userInputs) ==
    (IF Len(userInputs.featuredProjects) = 0
     THEN << Rec("section", "Add featured projects or hide the section",
                 "The Featured Projects section is enabled but empty. Either add projects manually or consider hiding this section.",
                 Action("disable", "projects", FALSE)) >>
     ELSE <<>>)
    \o
    (IF Len(userInputs.techStack) = 0
     THEN << Rec("section", "Add technologies to your tech stack",
                 "The Tech Stack section is enabled but empty. Add your skills to help visitors understand your expertise.",
                 NoAction) >>
     ELSE <<>>)

noDataSectionRulesUnexplained(userInputs) ==
    (IF userInputs.sections.projects /\ Len(userInputs.featuredProjects) = 0
     THEN << Rec("section", "Add featured projects or hide the section",
                 "The Featured Projects section is enabled but empty. Either add projects manually or consider hiding this section.",
                 Action("disable", "projects", FALSE)) >>
     ELSE <<>>)
    \o
    (IF userInputs.sections.techStack /\ Len(userInputs.techStack) = 0
     THEN << Rec("section", "Add technologies to your tech stack", "", NoAction) >>
     ELSE <<>>)

\* No GitHub data scenarios
noDataSectionRules(userInputs) ==
    (IF userInputs.sections.projects /\ Len(userInputs.featuredProjects) = 0
     THEN << Rec("section", "Add featured projects or hide the section",
                 "The Featured Projects section is enabled but empty. Either add projects manually or consider hiding this section.",
                 Action("disable", "projects", FALSE)) >>
     ELSE <<>>)
    \o
    (IF userInputs.sections.techStack /\ Len(userInputs.techStack) = 0
     THEN << Rec("section", "Add technologies to your tech stack",
                 "The Tech Stack section is enabled but empty. Add your skills to help visitors understand your expertise.",
                 NoAction) >>
     ELSE <<>>)

generateSectionRecommendations(userInputs, githubData) ==
    (IF githubData # <<>>
     THEN disableProjectsRule(userInputs, githubData[1])
            \o enableProjectsRule(userInputs, githubData[1])
            \o enableTechStackRule(userInputs, githubData[1])
            \o populateTechStackRule(userInputs, githubData[1])
     ELSE <<>>)
    \o
    (IF githubData = <<>> THEN noDataSectionRules(userInputs) ELSE <<>>)

generateToneRecommendationsFirstMatch(userInputs, githubData) ==
    LET careerStage == userInputs.careerStage
        profileGoal == userInputs.profileGoal
        tone        == userInputs.tone
    IN
    \* Student + low/no activity -> suggest friendly/learning-focused tone
    IF  /\ careerStage = "student"
        /\ githubData = <<>> \/ ~githubData[1].hasRecentActivity
        /\ tone # "friendly"
     THEN << Rec("tone", "Consider a friendly, learning-focused tone",
                 "As a student with limited visible activity, a friendly tone emphasizing learning and growth can be more authentic and engaging.",
                 Action("change", "tone", "friendly")) >>
     ELSE
    \* High stars + recent activity -> suggest confident/impact-focused tone
    IF  /\ githubData # <<>>
        /\ githubData[1].totalStars >= HIGH_STAR_THRESHOLD
        /\ githubData[1].hasRecentActivity
        /\ tone = "minimal" \/ tone = "friendly"
     THEN << Rec("tone", "Consider a more confident tone",
                 "Your projects have " \o ToString(githubData[1].totalStars)
                     \o " total stars and recent activity. A confident tone can better reflect your impact.",
                 Action("change", "tone", "confident")) >>
     ELSE
    \* Open-source goal -> suggest community-oriented tone
    IF profileGoal = "open-source" /\ tone = "minimal"
     THEN << Rec("tone", "Consider a friendlier tone for open-source",
                 "Open-source contributions benefit from an approachable, community-focused tone that invites collaboration.",
                 Action("change", "tone", "friendly")) >>
     ELSE
    \* Founder career stage -> suggest founder tone if not already
    IF careerStage = "founder" /\ tone # "founder"
     THEN << Rec("tone", "Consider using the founder tone",
                 "The founder tone is designed to emphasize vision and leadership, which aligns with your career stage.",
                 Action("change", "tone", "founder")) >>
     ELSE
    \* Job goal + professional -> suggest confident tone
    IF profileGoal = "job" /\ careerStage = "professional" /\ tone # "confident"
     THEN << Rec("tone", "Consider a confident tone for job searching",
                 "When looking for roles, a confident tone helps communicate your value proposition clearly to potential employers.",
                 Action("change", "tone", "confident")) >>
     ELSE <<>>

generateToneRecommendations(userInputs, githubData) ==
    LET careerStage == userInputs.careerStage
        profileGoal == userInputs.profileGoal
        tone        == userInputs.tone
    IN
    \* Student + low/no activity -> suggest friendly/learning-focused tone
    (IF /\ careerStage = "student"
        /\ githubData = <<>> \/ ~githubData[1].hasRecentActivity
        /\ tone # "friendly"
     THEN << Rec("tone", "Consider a friendly, learning-focused tone",
                 "As a student with limited visible activity, a friendly tone emphasizing learning and growth can be more authentic and engaging.",
                 Action("change", "tone", "friendly")) >>
     ELSE <<>>)
    \o
    \* High stars + recent activity -> suggest confident/impact-focused tone
    (IF /\ githubData # <<>>
        /\ githubData[1].totalStars >= HIGH_STAR_THRESHOLD
        /\ githubData[1].hasRecentActivity
        /\ tone = "minimal" \/ tone = "friendly"
     THEN << Rec("tone", "Consider a more confident tone",
                 "Your projects have " \o ToString(githubData[1].totalStars)
                     \o " total stars and recent activity. A confident tone can better reflect your impact.",
                 Action("change", "tone", "confident")) >>
     ELSE <<>>)
    \o
    \* Open-source goal -> suggest community-oriented tone
    (IF profileGoal = "open-source" /\ tone = "minimal"
     THEN << Rec("tone", "Consider a friendlier tone for open-source",
                 "Open-source contributions benefit from an approachable, community-focused tone that invites collaboration.",
                 Action("change", "tone", "friendly")) >>
     ELSE <<>>)
    \o
    \* Founder career stage -> suggest founder tone if not already
    (IF careerStage = "founder" /\ tone # "founder"
     THEN << Rec("tone", "Consider using the founder tone",
                 "The founder tone is designed to emphasize vision and leadership, which aligns with your career stage.",
                 Action("change", "tone", "founder")) >>
     ELSE <<>>)
    \o
    \* Job goal + professional -> suggest confident tone
    (IF profileGoal = "job" /\ careerStage = "professional" /\ tone # "confident"
     THEN << Rec("tone", "Consider a confident tone for job searching",
                 "When looking for roles, a confident tone helps communicate your value proposition clearly to potential employers.",
                 Action("change", "tone", "confident")) >>
     ELSE <<>>)

factWarningsForksAtThreshold(gd) ==
    (IF ~gd.hasRecentActivity /\ gd.repoCount > 0
     THEN << Rec("warning", "Your profile shows limited recent activity",
                 "Most of your repositories haven't been updated in the last 6 months. Consider focusing your bio on skills and experience rather than active projects.",
                 NoAction) >>
     ELSE <<>>)
    \o
    (IF gd.forkRatio >= 70 /\ gd.repoCount > 2
     THEN << Rec("warning", "Most of your repositories appear to be forks",
                 "Featuring forked repositories may not showcase your original work effectively. Consider highlighting your own projects instead.",
                 NoAction) >>
     ELSE <<>>)
    \o
    (IF gd.totalStars = 0 /\ gd.repoCount > 0
     THEN << Rec("warning", "Your repositories haven't received stars yet",
                 "This is normal for newer profiles. Focus on describing the problems your projects solve rather than metrics.",
                 NoAction) >>
     ELSE <<>>)
    \o
    (IF gd.repoCount > 0 /\ gd.repoCount < 3
     THEN << Rec("warning", "You have a small number of public repositories",
                 "With fewer projects to showcase, consider writing detailed descriptions for each one to maximize their impact.",
                 NoAction) >>
     ELSE <<>>)

\* the warnings that read githubData
factWarnings(gd) ==
    (IF ~gd.hasRecentActivity /\ gd.repoCount > 0
     THEN << Rec("warning", "Your profile shows limited recent activity",
                 "Most of your repositories haven't been updated in the last 6 months. Consider focusing your bio on skills and experience rather than active projects.",
                 NoAction) >>
     ELSE <<>>)
    \o
    (IF gd.forkRatio > 70 /\ gd.repoCount > 2
     THEN << Rec("warning", "Most of your repositories appear to be forks",
                 "Featuring forked repositories may not showcase your original work effectively. Consider highlighting your own projects instead.",
                 NoAction) >>
     ELSE <<>>)
    \o
    (IF gd.totalStars = 0 /\ gd.repoCount > 0
     THEN << Rec("warning", "Your repositories haven't received stars yet",
                 "This is normal for newer profiles. Focus on describing the problems your projects solve rather than metrics.",
                 NoAction) >>
     ELSE <<>>)
    \o
    (IF gd.repoCount > 0 /\ gd.repoCount < 3
     THEN << Rec("warning", "You have a small number of public repositories",
                 "With fewer projects to showcase, consider writing detailed descriptions for each one to maximize their impact.",
                 NoAction) >>
     ELSE <<>>)

YourName == << "Y", "o", "u", "r", " ", "N", "a", "m", "e" >>

completenessWarningsUntrimmed(userInputs) ==
    (IF userInputs.role = <<>>
     THEN << Rec("warning", "Your primary role is not specified",
                 "Adding a clear role helps visitors quickly understand what you do.",
                 NoAction) >>
     ELSE <<>>)
    \o
    (IF userInputs.name = YourName \/ userInputs.name = <<>>
     THEN << Rec("warning", "Remember to add your real name",
                 "A personalized name makes your profile more authentic and memorable.",
                 NoAction) >>
     ELSE <<>>)

\* Profile completeness warnings (no GitHub needed)
completenessWarnings(userInputs) ==
    (IF userInputs.role = <<>> \/ Trim(userInputs.role) = <<>>
     THEN << Rec("warning", "Your primary role is not specified",
                 "Adding a clear role helps visitors quickly understand what you do.",
                 NoAction) >>
     ELSE <<>>)
    \o
    (IF userInputs.name = YourName \/ Trim(userInputs.name) = <<>>
     THEN << Rec("warning", "Remember to add your real name",
                 "A personalized name makes your profile more authentic and memorable.",
                 NoAction) >>
     ELSE <<>>)

generateWarningsDefaultFacts(userInputs, githubData) ==
    factWarnings(IF githubData # <<>> THEN githubData[1]
                 ELSE [ repoCount |-> 1, hasRecentActivity |-> FALSE,
                        primaryLanguages |-> <<>>, topRepos |-> <<>>,
                        totalStars |-> 0, forkRatio |-> 0 ])
        \o completenessWarnings(userInputs)

generateWarnings(userInputs, githubData) ==
    (IF githubData # <<>> THEN factWarnings(githubData[1]) ELSE <<>>)
        \o completenessWarnings(userInputs)

generateHeuristicRecommendations(input) ==
    generateSectionRecommendations(input.userInputs, input.githubData)
        \o generateToneRecommendations(input.userInputs, input.githubData)
        \o generateWarnings(input.userInputs, input.githubData)

RECURSIVE calculateTotalStars(_)
\* repos.reduce((sum, r) => sum + r.stars, 0)
calculateTotalStars(rs) ==
    IF rs = <<>> THEN 0
    ELSE calculateTotalStars(SubSeq(rs, 1, Len(rs) - 1)) + rs[Len(rs)].stars

----------------------------------------------------------------------------
(* Inputs *)

T100 == <<1, 0, 0>>
T500 == <<5, 0, 0>>

Raw(n, d, l, st, ts, f, a, sz) ==
    [ name |-> n, description |-> d, language |-> l, stargazers_count |-> st,
      updated_at |-> ts, fork |-> f, archived |-> a, size |-> sz ]

\* repositories as fetchPublicRepos maps them: description and language may
\* be null, updated_at may be '' (r.updated_at ?? '')
RawRepoSet ==
    { \* the three filter flags
      Raw("a", "d", "Go", 5, T100, FALSE, FALSE, 7),
      Raw("a", "d", "Go", 5, T100, TRUE,  FALSE, 7),
      Raw("a", "d", "Go", 5, T100, FALSE, TRUE,  7),
      Raw("a", "d", "Go", 5, T100, FALSE, FALSE, 0),
      \* the two sort keys
      Raw("b", "d", "Rust", 5, T100, FALSE, FALSE, 7),
      Raw("b", "d", "Rust", 5, T500, FALSE, FALSE, 7),
      Raw("b", "d", "Rust", 5, <<>>, FALSE, FALSE, 7),
      Raw("b", "d", "Rust", 9, T100, FALSE, FALSE, 7),
      Raw("b", "d", "Rust", 9, <<>>, FALSE, FALSE, 7),
      \* the optional fields
      Raw("c", Null, Null, 5, T100, FALSE, FALSE, 7),
      Raw("c", "", "", 5, T100, FALSE, FALSE, 7),
      Raw("c", "d", "Unknown", 5, T100, FALSE, FALSE, 7) }

SeqsUpTo(S, n) == UNION { [1..k -> S] : k \in 0..n }

RawLists == SeqsUpTo(RawRepoSet, MaxRaw)

\* values of Date.now(), in ticks
Nows == { 100 + RECENT_DAYS_THRESHOLD * TicksPerDay,
          100 + RECENT_DAYS_THRESHOLD * TicksPerDay + 1,
          500 + RECENT_DAYS_THRESHOLD * TicksPerDay + 1 }

NormRepoSet ==
    { [ name |-> nd[1], description |-> nd[2], language |-> "Go",
        stars |-> 5, lastUpdated |-> ts ] :
      nd \in { <<"a", "">>, <<"a", "d">>, <<"b", "d">> },
      ts \in { T500, T100, <<>> } }

\* a list in the order filterAndRankRepos leaves it in
IsRanked(l) ==
    \A i, j \in 1..Len(l) :
        i < j => \/ l[i].stars > l[j].stars
                 \/ /\ l[i].stars = l[j].stars
                    /\ localeCompare(l[i].lastUpdated, l[j].lastUpdated) >= 0

RankedLists == { l \in SeqsUpTo(NormRepoSet, MaxRanked) : IsRanked(l) }

LangLists == { <<>>, <<"Go">>, <<"Go", "Rust">> }

----------------------------------------------------------------------------
(* app/api/github/inspect/route.ts: POST *)

Init ==
    /\ pc = "inspect"
    /\ rawRepos \in RawLists
    /\ now = 0
    /\ repos = <<>>
    /\ languages = <<>>
    /\ suggestions = <<>>
    /\ heuristicsInput = <<>>
    /\ recommendations = <<>>
    /\ inputs = <<>>
    /\ prevInputs = <<>>
    /\ suggestion = <<>>
    /\ IdleRec
    /\ IdleInspect
    /\ IdleCommit
    /\ IdlePreview

\* fetchPublicRepos returned rawRepos; the handler ranks, extracts, suggests
InspectPOST ==
    /\ pc = "inspect"
    /\ \E t \in Nows :
        /\ now' = t
        /\ repos' = filterAndRankRepos(rawRepos)
        /\ languages' = extractLanguages(repos')
        /\ suggestions' = generateSuggestions(repos', languages', t)
    /\ pc' = "inspected"
    /\ UNCHANGED <<rawRepos, heuristicsInput, recommendations, inputs, prevInputs, suggestion, recVars, inspectVars,
                   commitVars, previewVars>>

\* fetchPublicRepos threw: the handler answers { error } with status 500
InspectPOSTError ==
    /\ pc = "inspect"
    /\ pc' = "inspectError"
    /\ UNCHANGED <<rawRepos, now, repos, languages, suggestions,
                   heuristicsInput, recommendations, inputs, prevInputs, suggestion, recVars, inspectVars,
                   commitVars, previewVars>>

Next == InspectPOST \/ InspectPOSTError

Spec == Init /\ [][Next]_vars

----------------------------------------------------------------------------
(* generateSuggestions called on any ranked list, language list and clock *)

InitSuggest ==
    /\ pc = "suggest"
    /\ rawRepos = <<>>
    /\ now \in Nows
    /\ repos \in RankedLists
    /\ languages \in LangLists
    /\ suggestions = <<>>
    /\ heuristicsInput = <<>>
    /\ recommendations = <<>>
    /\ inputs = <<>>
    /\ prevInputs = <<>>
    /\ suggestion = <<>>
    /\ IdleRec
    /\ IdleInspect
    /\ IdleCommit
    /\ IdlePreview

GenerateSuggestionsCall ==
    /\ pc = "suggest"
    /\ suggestions' = generateSuggestions(repos, languages, now)
    /\ pc' = "suggested"
    /\ UNCHANGED <<rawRepos, now, repos, languages, heuristicsInput, recommendations,
                   inputs, prevInputs, suggestion, recVars, inspectVars,
                   commitVars, previewVars>>

NextSuggest == GenerateSuggestionsCall

SpecSuggest == InitSuggest /\ [][NextSuggest]_vars

----------------------------------------------------------------------------
(* generateHeuristicRecommendations called on a ProfileIntent and facts *)

YourGithubUsername ==
    << "y", "o", "u", "r", "-", "g", "i", "t", "h", "u", "b", "-",
       "u", "s", "e", "r", "n", "a", "m", "e" >>

\* app/page.tsx: the form's initial ReadmeInputs
defaultInputs ==
    [ name            |-> YourName,
      username        |-> YourGithubUsername,
      careerStage     |-> "professional",
      role            |-> << "F", "u", "l", "l", "-", "s", "t", "a", "c", "k", " ",
                             "d", "e", "v", "e", "l", "o", "p", "e", "r" >>,
      techStack       |-> << "TypeScript", "React", "Node.js" >>,
      featuredProjects |-> << [ name   |-> "ExampleProject",
                                impact |-> "Small one-line description of impact" ] >>,
      profileGoal     |-> "job",
      tone            |-> "friendly",
      emojiPreference |-> "light",
      sections        |-> [ whatIDo |-> TRUE, techStack |-> TRUE, projects |-> TRUE,
                            goal |-> TRUE, connect |-> TRUE ] ]

CareerStages == { "student", "professional", "founder", "open-source" }
ProfileGoals == { "job", "open-source", "branding" }
Tones == { "minimal", "confident", "friendly", "founder" }

\* inspectGitHub keeps data.repos.slice(0, 6) as topRepos
HeuristicsTopRepos == 6

StarRepo(st) ==
    [ name |-> "a", description |-> "d", language |-> "Go", stars |-> st,
      lastUpdated |-> T100 ]

TopRepoLists ==
    { l \in SeqsUpTo({ StarRepo(STRONG_REPO_STAR_THRESHOLD - 1),
                       StarRepo(STRONG_REPO_STAR_THRESHOLD) }, HeuristicsTopRepos) :
        IsRanked(l) }

DetectedLanguageLists ==
    { <<>>, << "Go" >>, << "Go", "Rust", "C", "Zig", "Lua", "Nim" >> }

Facts(n, recent, ls, top, total, ratio) ==
    [ repoCount |-> n, hasRecentActivity |-> recent, primaryLanguages |-> ls,
      topRepos |-> top, totalStars |-> total, forkRatio |-> ratio ]

Optional(S) == { <<>> } \cup { <<x>> : x \in S }

\* the fields that generateSectionRecommendations reads
SectionInputs ==
    { [ userInputs |->
          [ defaultInputs EXCEPT !.techStack = ts, !.featuredProjects = fp,
                                 !.sections.projects = p, !.sections.techStack = t ],
        githubData |-> g ] :
      ts \in { <<>>, defaultInputs.techStack },
      fp \in { <<>>, defaultInputs.featuredProjects },
      p \in BOOLEAN, t \in BOOLEAN,
      g \in Optional({ Facts(n, recent, ls, top, calculateTotalStars(top), 0) :
                         n \in 0..MaxRepoCount, recent \in BOOLEAN,
                         ls \in DetectedLanguageLists, top \in TopRepoLists }) }

\* the fields that generateToneRecommendations reads
ToneInputs ==
    { [ userInputs |->
          [ defaultInputs EXCEPT !.careerStage = c, !.profileGoal = goal, !.tone = tone ],
        githubData |-> g ] :
      c \in CareerStages, goal \in ProfileGoals, tone \in Tones,
      g \in Optional({ Facts(1, recent, <<>>, <<>>, total, 0) :
                         recent \in BOOLEAN,
                         total \in { 0, HIGH_STAR_THRESHOLD - 1, HIGH_STAR_THRESHOLD } }) }

\* the fields that generateWarnings reads
WarningInputs ==
    { [ userInputs |-> [ defaultInputs EXCEPT !.role = role, !.name = name ],
        githubData |-> g ] :
      role \in { <<>>, << " " >>, << "D", "e", "v" >>, << " ", "D", "e", "v", " " >> },
      name \in { <<>>, << " ", "\t" >>, YourName, << "A", "d", "a" >> },
      g \in Optional({ Facts(n, recent, <<>>, <<>>, total, ratio) :
                         n \in 0..MaxRepoCount, recent \in BOOLEAN,
                         total \in { 0, 1 }, ratio \in { 0, 70, 71 } }) }

HeuristicsInputs == SectionInputs \cup ToneInputs \cup WarningInputs

InitHeur ==
    /\ pc = "heuristics"
    /\ rawRepos = <<>>
    /\ now = 0
    /\ repos = <<>>
    /\ languages = <<>>
    /\ suggestions = <<>>
    /\ heuristicsInput \in HeuristicsInputs
    /\ recommendations = <<>>
    /\ inputs = <<>>
    /\ prevInputs = <<>>
    /\ suggestion = <<>>
    /\ IdleRec
    /\ IdleInspect
    /\ IdleCommit
    /\ IdlePreview

GenerateHeuristicsCall ==
    /\ pc = "heuristics"
    /\ recommendations' = generateHeuristicRecommendations(heuristicsInput)
    /\ pc' = "recommended"
    /\ UNCHANGED <<rawRepos, now, repos, languages, suggestions, heuristicsInput,
                   inputs, prevInputs, suggestion, recVars, inspectVars,
                   commitVars, previewVars>>

NextHeur == GenerateHeuristicsCall

SpecHeur == InitHeur /\ [][NextHeur]_vars

----------------------------------------------------------------------------
(* app/page.tsx: the heuristics effect and the facts that inspectGitHub    *)
(* keeps for it                                                            *)

\* the heuristics useEffect: runs when inputs or githubDataForHeuristics changed
heuristicsEffect(s0, gd) ==
    generateHeuristicRecommendations([ userInputs |-> s0, githubData |-> gd ])

\* lib/markdownFormatter.ts: repos.some(daysSince <= RECENT_DAYS_THRESHOLD)
hasRecentActivity(rs, t) ==
    \E k \in 1..Len(rs) :
        LET updated == DateGetTime(rs[k].lastUpdated)
        IN  /\ updated # <<>>
            /\ (t - updated[1]) <= RECENT_DAYS_THRESHOLD * TicksPerDay

inspectedFactsWithForkRatio(rs, ls, t) ==
    Facts(Len(rs), hasRecentActivity(rs, t), ls, Slice(rs, HeuristicsTopRepos),
          calculateTotalStars(rs), 100)

\* the object passed to setGithubDataForHeuristics
inspectedFacts(rs, ls, t) ==
    Facts(Len(rs), hasRecentActivity(rs, t), ls, Slice(rs, HeuristicsTopRepos),
          calculateTotalStars(rs), 0)

----------------------------------------------------------------------------
(* app/page.tsx: applySuggestion, the Apply button of a GitHub suggestion *)

MaxFeatured == 2    \* longest featured-project list in the form at the start
MaxInspected == 2   \* longest ranked list in the inspection response

RECURSIVE SetAdd(_, _)
SetAdd(xs, acc) ==
    IF xs = <<>> THEN acc
    ELSE SetAdd(Tail(xs), IF Head(xs) \in Range(acc) THEN acc ELSE Append(acc, Head(xs)))

ArrayKeepsAll(xs) == xs

\* Array.from(new Set(xs)): the values of xs in insertion order
ArrayFromSet(xs) == SetAdd(xs, <<>>)

featuredProjectsAppendOnly(featuredProjects, project) ==
    featuredProjects \o << project >>

\* [...s.featuredProjects.filter((p) => p.name !== project.name), project]
featuredProjectsWith(featuredProjects, project) ==
    LET OtherName(p) == p.name # project.name
    IN  SelectSeq(featuredProjects, OtherName) \o << project >>

techStackConcat(techStack, langs) == techStack \o langs

\* Array.from(new Set([...s.techStack, ...langs]))
techStackMerged(techStack, langs) == ArrayFromSet(techStack \o langs)

\* the inputs after the updaters that applySuggestion queues have run on s0
applySuggestionUpdaters(s0, sg) ==
    LET s1 == IF sg.data # <<>> /\ sg.data[1].project # <<>>
              THEN [ s0 EXCEPT !.featuredProjects =
                         featuredProjectsWith(@, sg.data[1].project[1]) ]
              ELSE s0
    IN  IF sg.data # <<>> /\ sg.data[1].languages # <<>>
        THEN [ s1 EXCEPT !.techStack = techStackMerged(@, sg.data[1].languages[1]) ]
        ELSE s1

\* prev.filter((s) => s !== suggestion): the entries are distinct objects
RemoveAt(seq, k) == SubSeq(seq, 1, k - 1) \o SubSeq(seq, k + 1, Len(seq))

InspectedRepoSet ==
    { [ name |-> "a", description |-> "", language |-> "Go", stars |-> 5,
        lastUpdated |-> T100 ],
      [ name |-> "a", description |-> "d", language |-> "Unknown", stars |-> 5,
        lastUpdated |-> T100 ],
      [ name |-> "b", description |-> "d", language |-> "Rust", stars |-> 5,
        lastUpdated |-> T100 ],
      [ name |-> "b", description |-> "d", language |-> "Go", stars |-> 5,
        lastUpdated |-> T100 ] }

\* data.suggestions of an inspection response
InspectedSuggestions ==
    { generateSuggestions(rs, extractLanguages(rs), 100) :
        rs \in SeqsUpTo(InspectedRepoSet, MaxInspected) }

FeaturedProjectSet ==
    { [ name |-> "a", impact |-> "old" ], [ name |-> "b", impact |-> "d" ],
      defaultInputs.featuredProjects[1] }

\* the form lets the user type any lines, repeated ones included
ApplyInputs ==
    { [ defaultInputs EXCEPT !.featuredProjects = fp, !.techStack = ts ] :
        fp \in SeqsUpTo(FeaturedProjectSet, MaxFeatured),
        ts \in { <<>>, << "Go" >>, << "Rust", "Go" >>, defaultInputs.techStack,
                 << "Go", "TypeScript", "Go" >> } }

InitApply ==
    /\ pc = "ui"
    /\ rawRepos = <<>>
    /\ now = 0
    /\ repos = <<>>
    /\ languages = <<>>
    /\ heuristicsInput = <<>>
    /\ recommendations = <<>>
    /\ inputs \in ApplyInputs
    /\ prevInputs = inputs
    /\ suggestion = <<>>
    /\ \E rs \in SeqsUpTo(InspectedRepoSet, MaxInspected) :
          /\ suggestions = generateSuggestions(rs, extractLanguages(rs), 100)
          /\ githubDataForHeuristics = << inspectedFacts(rs, extractLanguages(rs), 100) >>
    /\ heuristicRecs = heuristicsEffect(inputs, githubDataForHeuristics)
    /\ rec = <<>>
    /\ applications = 0
    /\ IdleInspect
    /\ IdleCommit
    /\ MountedPreview

\* the Apply button is rendered for suggestions with a project or languages
ApplySuggestionClick ==
    /\ pc = "ui"
    /\ \E k \in 1..Len(suggestions) :
          /\ suggestions[k].data # <<>>
          /\ \/ suggestions[k].data[1].project # <<>>
             \/ suggestions[k].data[1].languages # <<>>
          /\ suggestion' = << suggestions[k] >>
          /\ prevInputs' = inputs
          /\ inputs' = applySuggestionUpdaters(inputs, suggestions[k])
          /\ suggestions' = RemoveAt(suggestions, k)
    \* setInputs was called: the heuristics effect reruns
    /\ heuristicRecs' = heuristicsEffect(inputs', githubDataForHeuristics)
    /\ timer' = debounceEffect(inputs')
    /\ UNCHANGED <<pc, rawRepos, now, repos, languages, heuristicsInput, recommendations,
                   githubDataForHeuristics, rec, applications, inspectVars,
                   commitVars, markdown, loading, generating>>

NextApply == ApplySuggestionClick

SpecApply == InitApply /\ [][NextApply]_vars

----------------------------------------------------------------------------
(* app/page.tsx: applyHeuristicRecommendation, the Apply / Dismiss button   *)
(* of a heuristic recommendation.  suggestedAction.value is a boolean for   *)
(* enable and disable, a list for change techStack, a string otherwise.    *)

\* the boolean true as an element of an array of strings
JsTrue == "<true>"

\* { ...s, [key]: value } for a key that ReadmeInputs may not have
WithField(s0, key, value) ==
    [ f \in DOMAIN s0 \cup { key } |-> IF f = key THEN value ELSE s0[f] ]

IsArrayValue(a) == a.type = "change" /\ a.target = "techStack"
IsBooleanValue(a) == a.type \in { "enable", "disable" }

\* `value` as a condition
TruthyValue(a) ==
    IF IsBooleanValue(a) THEN a.value = TRUE
    ELSE IF IsArrayValue(a) THEN TRUE
    ELSE Truthy(a.value)

\* which branch of applyHeuristicRecommendation a recommendation takes
applyBranch(r) ==
    IF r.suggestedAction = <<>> THEN "note"
    ELSE LET a == r.suggestedAction[1]
         IN  IF a.target = "tone" /\ a.type = "change" /\ TruthyValue(a) THEN "tone"
             ELSE IF a.target = "goal" /\ a.type = "change" /\ TruthyValue(a) THEN "goal"
             ELSE IF a.target = "techStack" /\ a.type = "enable" /\ TruthyValue(a)
                  THEN "techStack"
             ELSE "alert"

applyRecommendationUpdatersKeepsTone(s0, r) ==
    CASE applyBranch(r) = "goal" -> WithField(s0, "goal", r.suggestedAction[1].value)
      [] applyBranch(r) = "techStack" ->
            [ s0 EXCEPT !.techStack = ArrayFromSet(@ \o << JsTrue >>) ]
      [] OTHER -> s0

\* the inputs after the updater that applyHeuristicRecommendation queues
applyRecommendationUpdaters(s0, r) ==
    CASE applyBranch(r) = "tone" -> [ s0 EXCEPT !.tone = r.suggestedAction[1].value ]
      [] applyBranch(r) = "goal" -> WithField(s0, "goal", r.suggestedAction[1].value)
      [] applyBranch(r) = "techStack" ->
            \* Array.isArray(value) ? value : [value], value being true here
            [ s0 EXCEPT !.techStack = ArrayFromSet(@ \o << JsTrue >>) ]
      [] OTHER -> s0

RecInputs ==
    { [ defaultInputs EXCEPT !.tone = t, !.careerStage = c, !.techStack = ts,
                             !.sections.projects = p, !.sections.techStack = q ] :
        t \in Tones, c \in { "student", "professional", "founder" },
        ts \in { <<>>, defaultInputs.techStack }, p \in BOOLEAN, q \in BOOLEAN }

RecFacts ==
    Optional({ Facts(n, recent, ls, top, calculateTotalStars(top), 0) :
                 n \in { 0, 3 }, recent \in BOOLEAN, ls \in { <<>>, << "Go" >> },
                 top \in { <<>>, << StarRepo(5), StarRepo(5), StarRepo(5) >> } })

\* recommendations of the HeuristicRecommendation type that the engine does
\* not emit: the other targets and values of suggestedAction
TypedGoalRecs ==
    { Rec("section", "m", "e", Action("change", "goal", v)) :
        v \in ProfileGoals \cup { "" } }

TypedSectionRecs ==
    { Rec("section", "m", "e", Action(ty, tg, v)) :
        ty \in { "enable", "disable" },
        tg \in { "projects", "techStack", "goal", "whatIDo", "connect" },
        v \in BOOLEAN }

TypedToneRecs ==
    { Rec("tone", "m", "e", Action("change", "tone", v)) : v \in Tones \cup { "" } }

InitRec ==
    /\ pc = "ui"
    /\ rawRepos = <<>>
    /\ now = 0
    /\ repos = <<>>
    /\ languages = <<>>
    /\ suggestions = <<>>
    /\ heuristicsInput = <<>>
    /\ recommendations = <<>>
    /\ inputs \in RecInputs
    /\ prevInputs = inputs
    /\ suggestion = <<>>
    /\ githubDataForHeuristics \in RecFacts
    /\ \/ heuristicRecs = heuristicsEffect(inputs, githubDataForHeuristics)
       \/ /\ githubDataForHeuristics = <<>>
          /\ \/ \E r \in TypedGoalRecs : heuristicRecs = << r >>
             \/ \E r \in TypedSectionRecs : heuristicRecs = << r >>
             \/ \E r \in TypedToneRecs : heuristicRecs = << r >>
    /\ rec = <<>>
    /\ applications = 0
    /\ IdleInspect
    /\ IdleCommit
    /\ MountedPreview

\* a click on Apply or Dismiss; the effect reruns when setInputs was called
ApplyHeuristicRecommendationClick ==
    /\ pc = "ui"
    /\ \E k \in 1..Len(heuristicRecs) :
          /\ rec' = << heuristicRecs[k] >>
          /\ prevInputs' = inputs
          /\ inputs' = applyRecommendationUpdaters(inputs, heuristicRecs[k])
          /\ heuristicRecs' =
                IF applyBranch(heuristicRecs[k]) \in { "tone", "goal", "techStack" }
                THEN heuristicsEffect(inputs', githubDataForHeuristics)
                ELSE RemoveAt(heuristicRecs, k)
          \* the debounce effect reruns when setInputs was called
          /\ timer' =
                IF applyBranch(heuristicRecs[k]) \in { "tone", "goal", "techStack" }
                THEN debounceEffect(inputs')
                ELSE timer
    /\ UNCHANGED <<pc, rawRepos, now, repos, languages, suggestions, heuristicsInput,
                   recommendations, suggestion, githubDataForHeuristics, applications,
                   inspectVars,
                   commitVars, markdown, loading, generating>>

NextRec == ApplyHeuristicRecommendationClick

SpecRec == InitRec /\ [][NextRec]_vars

----------------------------------------------------------------------------
(* One advisory item applied to the same ProfileIntent several times:       *)
(* applySuggestion or applyHeuristicRecommendation called again with the    *)
(* item it was called with.                                                 *)

MaxApplications == 2    \* how many times the item is applied

InitTwice ==
    /\ pc = "apply"
    /\ rawRepos = <<>>
    /\ now = 0
    /\ repos = <<>>
    /\ languages = <<>>
    /\ suggestions = <<>>
    /\ heuristicsInput = <<>>
    /\ recommendations = <<>>
    /\ inputs \in ApplyInputs
    /\ prevInputs = inputs
    /\ heuristicRecs = <<>>
    /\ githubDataForHeuristics = <<>>
    /\ applications = 0
    /\ IdleInspect
    /\ IdleCommit
    /\ MountedPreview
    /\ \/ /\ rec = <<>>
          /\ \E l \in InspectedSuggestions : \E k \in 1..Len(l) :
                suggestion = << l[k] >>
       \/ /\ suggestion = <<>>
          /\ \E e \in RecInputs, gd \in RecFacts :
                \E k \in 1..Len(heuristicsEffect(e, gd)) :
                    rec = << heuristicsEffect(e, gd)[k] >>

ApplySuggestionAgain ==
    /\ pc = "apply"
    /\ suggestion # <<>>
    /\ applications < MaxApplications
    /\ prevInputs' = inputs
    /\ inputs' = applySuggestionUpdaters(inputs, suggestion[1])
    /\ applications' = applications + 1
    /\ timer' = debounceEffect(inputs')
    /\ UNCHANGED <<pc, rawRepos, now, repos, languages, suggestions, heuristicsInput,
                   recommendations, suggestion, heuristicRecs,
                   githubDataForHeuristics, rec, inspectVars,
                   commitVars, markdown, loading, generating>>

ApplyRecommendationAgain ==
    /\ pc = "apply"
    /\ rec # <<>>
    /\ applications < MaxApplications
    /\ prevInputs' = inputs
    /\ inputs' = applyRecommendationUpdaters(inputs, rec[1])
    /\ applications' = applications + 1
    /\ timer' = IF applyBranch(rec[1]) \in { "tone", "goal", "techStack" }
                THEN debounceEffect(inputs')
                ELSE timer
    /\ UNCHANGED <<pc, rawRepos, now, repos, languages, suggestions, heuristicsInput,
                   recommendations, suggestion, heuristicRecs,
                   githubDataForHeuristics, rec, inspectVars,
                   commitVars, markdown, loading, generating>>

NextTwice == ApplySuggestionAgain \/ ApplyRecommendationAgain

SpecTwice == InitTwice /\ [][NextTwice]_vars

----------------------------------------------------------------------------
(* app/page.tsx: tone recommendations applied one after the other, the      *)
(* heuristics effect regenerating the list after each, with fixed facts.    *)

MaxToneApplications == 4    \* applications of tone recommendations allowed

ToneFacts ==
    Optional({ Facts(1, recent, <<>>, <<>>, total, 0) :
                 recent \in BOOLEAN,
                 total \in { 0, HIGH_STAR_THRESHOLD - 1, HIGH_STAR_THRESHOLD } })

InitTone ==
    /\ pc = "ui"
    /\ rawRepos = <<>>
    /\ now = 0
    /\ repos = <<>>
    /\ languages = <<>>
    /\ suggestions = <<>>
    /\ heuristicsInput = <<>>
    /\ recommendations = <<>>
    /\ \E c \in CareerStages, goal \in ProfileGoals, tone \in Tones :
          inputs = [ defaultInputs EXCEPT !.careerStage = c, !.profileGoal = goal,
                                          !.tone = tone ]
    /\ prevInputs = inputs
    /\ suggestion = <<>>
    /\ githubDataForHeuristics \in ToneFacts
    /\ heuristicRecs = heuristicsEffect(inputs, githubDataForHeuristics)
    /\ rec = <<>>
    /\ applications = 0
    /\ IdleInspect
    /\ IdleCommit
    /\ MountedPreview

\* applyHeuristicRecommendation on a tone recommendation of the list shown
ApplyToneRecommendationClick ==
    /\ pc = "ui"
    /\ applications < MaxToneApplications
    /\ \E k \in 1..Len(heuristicRecs) :
          /\ heuristicRecs[k].recommendationType = "tone"
          /\ rec' = << heuristicRecs[k] >>
          /\ prevInputs' = inputs
          /\ inputs' = applyRecommendationUpdaters(inputs, heuristicRecs[k])
          /\ heuristicRecs' =
                IF applyBranch(heuristicRecs[k]) \in { "tone", "goal", "techStack" }
                THEN heuristicsEffect(inputs', githubDataForHeuristics)
                ELSE RemoveAt(heuristicRecs, k)
          /\ timer' =
                IF applyBranch(heuristicRecs[k]) \in { "tone", "goal", "techStack" }
                THEN debounceEffect(inputs')
                ELSE timer
    /\ applications' = applications + 1
    /\ UNCHANGED <<pc, rawRepos, now, repos, languages, suggestions, heuristicsInput,
                   recommendations, suggestion, githubDataForHeuristics, inspectVars,
                   commitVars, markdown, loading, generating>>

NextTone == ApplyToneRecommendationClick

SpecTone == InitTone /\ [][NextTone]_vars

----------------------------------------------------------------------------
(* app/page.tsx: the page from its first render: form edits, inspectGitHub  *)
(* and its response, the heuristics effect, and the two Apply buttons.      *)

MaxFetched == 3     \* longest repository list that an inspection fetches

FetchedRepoSet ==
    { Raw("f", "d", "Go", 5, T500, TRUE, FALSE, 7),
      Raw("a", "d", "Go", 5, T100, FALSE, FALSE, 7) }

FetchedLists == SeqsUpTo(FetchedRepoSet, MaxFetched)

\* what the user types into the username field
UsernameEdits == { << "o", "c", "t" >>, << " " >> }

InitUI ==
    /\ pc = "ui"
    /\ rawRepos = <<>>
    /\ now = 0
    /\ repos = <<>>
    /\ languages = <<>>
    /\ suggestions = <<>>
    /\ heuristicsInput = <<>>
    /\ recommendations = <<>>
    /\ inputs = defaultInputs
    /\ prevInputs = inputs
    /\ suggestion = <<>>
    /\ githubDataForHeuristics = <<>>
    /\ heuristicRecs = heuristicsEffect(inputs, githubDataForHeuristics)
    /\ rec = <<>>
    /\ applications = 0
    /\ IdleInspect
    /\ IdleCommit
    /\ MountedPreview

\* update('username', e.target.value), then the heuristics effect
EditUsername ==
    /\ pc = "ui"
    /\ \E u \in UsernameEdits :
          /\ u # inputs.username
          /\ inputs' = [ inputs EXCEPT !.username = u ]
    /\ heuristicRecs' = heuristicsEffect(inputs', githubDataForHeuristics)
    /\ timer' = debounceEffect(inputs')
    /\ UNCHANGED <<rawRepos, now, repos, languages, suggestions, heuristicsInput,
                   recommendations, pc, prevInputs, suggestion,
                   githubDataForHeuristics, rec, applications, inspectVars,
                   commitVars, markdown, loading, generating>>

\* inspectGitHub with no usable username: an error message and nothing else
InspectGitHubRefused ==
    /\ pc = "ui"
    /\ ~inspecting
    /\ Trim(inputs.username) = <<>> \/ Trim(inputs.username) = YourGithubUsername
    /\ inspectError' = "Please enter a valid GitHub username first."
    /\ UNCHANGED <<pc, rawRepos, now, repos, languages, suggestions, heuristicsInput,
                   recommendations, inputs, prevInputs, suggestion, recVars,
                   inspecting,
                   commitVars, previewVars>>

\* inspectGitHub up to its await: the old suggestions and facts are dropped;
\* the heuristics effect reruns when the facts were not already null
InspectGitHubClick ==
    /\ pc = "ui"
    /\ ~inspecting
    /\ ~(Trim(inputs.username) = <<>> \/ Trim(inputs.username) = YourGithubUsername)
    /\ inspecting' = TRUE
    /\ inspectError' = Null
    /\ suggestions' = <<>>
    /\ githubDataForHeuristics' = <<>>
    /\ heuristicRecs' = IF githubDataForHeuristics # <<>>
                         THEN heuristicsEffect(inputs, <<>>)
                         ELSE heuristicRecs
    /\ UNCHANGED <<pc, rawRepos, now, repos, languages, heuristicsInput,
                   recommendations, inputs, prevInputs, suggestion, rec,
                   applications,
                   commitVars, previewVars>>

InspectResponseAutoApplies ==
    /\ pc = "ui"
    /\ inspecting
    /\ \E raw \in FetchedLists, t \in Nows :
          LET rs == filterAndRankRepos(raw)
              ls == extractLanguages(rs)
          IN  /\ suggestions' = generateSuggestions(rs, ls, t)
              /\ githubDataForHeuristics' = << inspectedFacts(rs, ls, t) >>
              /\ inputs' = [ inputs EXCEPT !.techStack = techStackMerged(@, ls) ]
    /\ heuristicRecs' = heuristicsEffect(inputs', githubDataForHeuristics')
    /\ inspecting' = FALSE
    /\ timer' = debounceEffect(inputs')
    /\ UNCHANGED <<pc, rawRepos, now, repos, languages, heuristicsInput,
                   recommendations, prevInputs, suggestion, rec,
                   applications, inspectError,
                   commitVars, markdown, loading, generating>>

\* the response of the inspect route arrives: its suggestions and the facts
\* computed from its repos are stored, and the heuristics effect reruns
InspectResponse ==
    /\ pc = "ui"
    /\ inspecting
    /\ \E raw \in FetchedLists, t \in Nows :
          LET rs == filterAndRankRepos(raw)
              ls == extractLanguages(rs)
          IN  /\ suggestions' = generateSuggestions(rs, ls, t)
              /\ githubDataForHeuristics' = << inspectedFacts(rs, ls, t) >>
    /\ heuristicRecs' = heuristicsEffect(inputs, githubDataForHeuristics')
    /\ inspecting' = FALSE
    /\ UNCHANGED <<pc, rawRepos, now, repos, languages, heuristicsInput,
                   recommendations, inputs, prevInputs, suggestion, rec,
                   applications, inspectError,
                   commitVars, previewVars>>

\* the route answered { error } or the fetch threw
InspectResponseError ==
    /\ pc = "ui"
    /\ inspecting
    /\ inspectError' = "Failed to inspect GitHub profile"
    /\ inspecting' = FALSE
    /\ UNCHANGED <<pc, rawRepos, now, repos, languages, suggestions, heuristicsInput,
                   recommendations, inputs, prevInputs, suggestion, recVars,
                   commitVars, previewVars>>

NextUI ==
    \/ EditUsername
    \/ InspectGitHubRefused
    \/ InspectGitHubClick
    \/ InspectResponse
    \/ InspectResponseError
    \/ ApplySuggestionClick
    \/ ApplyHeuristicRecommendationClick

SpecUI == InitUI /\ [][NextUI]_vars

----------------------------------------------------------------------------
(* The commit flow: app/page.tsx (startCommitFlow, createProfileRepo,       *)
(* executeCommit, cancelCommitFlow), app/api/github/commit-readme POST and  *)
(* lib/githubCommit.ts.                                                     *)
(*   - a blob SHA is a number, a new one for every version of README.md;    *)
(*     0 stands for "no file" (sha undefined / readmeSha null).             *)
(*   - confirmed is JsTrue for the boolean true; "<false>", the string      *)
(*     "true" and Null (absent) are the other values a client can send.     *)
(*   - the route handles one request at a time; its commit branch is cut    *)
(*     between fetchCurrentReadme and the PUT of commitReadme, where the    *)
(*     README can change on GitHub.                                         *)

MaxSha == 3    \* README versions after which no new write is started

JsFalse == "<false>"

CommitState(step, currentReadme, readmeSha, error) ==
    [ step |-> step, currentReadme |-> currentReadme, readmeSha |-> readmeSha,
      error |-> error ]

Request(origin, action, content, confirmed, token) ==
    [ origin |-> origin, action |-> action, content |-> content,
      confirmed |-> confirmed, token |-> token ]

\* the JSON body of a NextResponse, with its status and the caller it goes to
Response(to, action, status, error, success, repoExists, currentReadme, readmeSha) ==
    [ to |-> to, action |-> action, status |-> status, error |-> error,
      success |-> success, repoExists |-> repoExists,
      currentReadme |-> currentReadme, readmeSha |-> readmeSha ]

ErrorResponse(req, status, error) ==
    Response(req.origin, req.action, status, error, FALSE, FALSE, Null, 0)

\* !content || typeof content !== 'string'
contentMissing(content) == content \in { Null, "", JsTrue, JsFalse }

confirmationMissingTruthy(confirmed) == confirmed \in { Null, JsFalse }

\* confirmed !== true
confirmationMissing(confirmed) == confirmed # JsTrue

\* the answer with which POST returns before it reaches GitHub's contents
\* API, or <<>> when the request passes every check
commitRouteRefusal(req) ==
    IF req.action \notin { "check", "create-repo", "commit" }
    THEN << ErrorResponse(req, 400, "Invalid action. Must be: check, create-repo, or commit") >>
    ELSE IF ~req.token
    THEN << ErrorResponse(req, 401, "Write access not granted. Please connect GitHub with write permission.") >>
    ELSE IF req.action # "commit" THEN <<>>
    ELSE IF contentMissing(req.content)
    THEN << ErrorResponse(req, 400, "Content is required for commit") >>
    ELSE IF confirmationMissing(req.confirmed)
    THEN << ErrorResponse(req, 400, "Explicit confirmation required. Set confirmed: true") >>
    ELSE IF ~remote.repoExists
    THEN << ErrorResponse(req, 404, "Repository does not exist. Please create it first.") >>
    ELSE <<>>

\* GitHub's PUT /contents/README.md: the file is written when the SHA sent is
\* the SHA of the file there (none sent, none there: the file is created)
putAccepted(sentSha) == sentSha = remote.sha

Markdowns == { "", "# Hi" }

ApiActions == { "check", "create-repo", "commit", "delete" }
ApiContents == { Null, "", "# Other" }
ApiConfirmations == { JsTrue, JsFalse, "true", Null }

InitCommit ==
    /\ pc = "ui"
    /\ rawRepos = <<>>
    /\ now = 0
    /\ repos = <<>>
    /\ languages = <<>>
    /\ suggestions = <<>>
    /\ heuristicsInput = <<>>
    /\ recommendations = <<>>
    /\ inputs = defaultInputs
    /\ prevInputs = inputs
    /\ suggestion = <<>>
    /\ githubDataForHeuristics = <<>>
    /\ heuristicRecs = heuristicsEffect(inputs, githubDataForHeuristics)
    /\ rec = <<>>
    /\ applications = 0
    /\ IdleInspect
    /\ githubUser \in Optional({ [ login |-> "u", hasWriteAccess |-> w ] : w \in BOOLEAN })
    /\ commitState = CommitState("idle", Null, 0, Null)
    /\ commitConfirmed = FALSE
    /\ \/ remote = [ repoExists |-> FALSE, content |-> Null, sha |-> 0 ]
       \/ remote = [ repoExists |-> TRUE, content |-> Null, sha |-> 0 ]
       \/ remote = [ repoExists |-> TRUE, content |-> "# Old", sha |-> 1 ]
    /\ request = <<>>
    /\ route = <<>>
    /\ response = <<>>
    /\ written = <<>>
    /\ markdown \in Markdowns
    /\ loading = FALSE
    /\ timer = <<>>
    /\ generating = <<>>

HasWriteAccess == githubUser # <<>> /\ githubUser[1].hasWriteAccess

\* the route is handling nothing and its last answer was received
RouteFree == request = <<>> /\ route = <<>> /\ response = <<>>

\* startCommitFlow up to its await
StartCommitFlowClick ==
    /\ pc = "ui"
    /\ HasWriteAccess
    /\ commitState.step = "idle"
    /\ RouteFree
    /\ commitState' = CommitState("checking", Null, 0, Null)
    /\ commitConfirmed' = FALSE
    /\ \E token \in BOOLEAN :
          request' = << Request("ui", "check", Null, Null, token) >>
    /\ UNCHANGED <<pc, rawRepos, now, repos, languages, suggestions, heuristicsInput,
                   recommendations, inputs, prevInputs, suggestion, recVars,
                   inspectVars, githubUser, remote, route, response, written,
                   previewVars>>

\* the onChange of the confirmation checkbox of the diff preview
ToggleCommitConfirmed ==
    /\ pc = "ui"
    /\ HasWriteAccess
    /\ commitState.step = "preview"
    /\ commitConfirmed' = ~commitConfirmed
    /\ UNCHANGED <<pc, rawRepos, now, repos, languages, suggestions, heuristicsInput,
                   recommendations, inputs, prevInputs, suggestion, recVars,
                   inspectVars, githubUser, commitState, remote, request, route,
                   response, written, previewVars>>

\* executeCommit up to its await; it returns at once when the checkbox is
\* not checked (and the button is disabled then)
ExecuteCommitClick ==
    /\ pc = "ui"
    /\ HasWriteAccess
    /\ commitState.step = "preview"
    /\ commitConfirmed
    /\ RouteFree
    /\ remote.sha < MaxSha
    /\ commitState' = [ commitState EXCEPT !.step = "committing" ]
    /\ \E token \in BOOLEAN :
          request' = << Request("ui", "commit", markdown, JsTrue, token) >>
    /\ UNCHANGED <<pc, rawRepos, now, repos, languages, suggestions, heuristicsInput,
                   recommendations, inputs, prevInputs, suggestion, recVars,
                   inspectVars, githubUser, commitConfirmed, remote, route, response,
                   written, previewVars>>

\* createProfileRepo (page.tsx) up to its await
CreateProfileRepoClick ==
    /\ pc = "ui"
    /\ HasWriteAccess
    /\ commitState.step = "no-repo"
    /\ RouteFree
    /\ commitState' = [ commitState EXCEPT !.step = "checking" ]
    /\ \E token \in BOOLEAN :
          request' = << Request("ui", "create-repo", Null, Null, token) >>
    /\ UNCHANGED <<pc, rawRepos, now, repos, languages, suggestions, heuristicsInput,
                   recommendations, inputs, prevInputs, suggestion, recVars,
                   inspectVars, githubUser, commitConfirmed, remote, route, response,
                   written, previewVars>>

cancelCommitFlow ==
    /\ pc = "ui"
    /\ HasWriteAccess
    /\ commitState.step \in { "no-repo", "preview", "success", "error" }
    /\ commitState' = CommitState("idle", Null, 0, Null)
    /\ commitConfirmed' = FALSE
    /\ UNCHANGED <<pc, rawRepos, now, repos, languages, suggestions, heuristicsInput,
                   recommendations, inputs, prevInputs, suggestion, recVars,
                   inspectVars, githubUser, remote, request, route, response, written,
                   previewVars>>

\* any other client of the route sends it a request
ApiRequest ==
    /\ pc = "ui"
    /\ RouteFree
    /\ remote.sha < MaxSha
    /\ \E action \in ApiActions, content \in ApiContents,
          confirmed \in ApiConfirmations, token \in BOOLEAN :
          request' = << Request("api", action, content, confirmed, token) >>
    /\ UNCHANGED <<pc, rawRepos, now, repos, languages, suggestions, heuristicsInput,
                   recommendations, inputs, prevInputs, suggestion, recVars,
                   inspectVars, githubUser, commitState, commitConfirmed, remote,
                   route, response, written, previewVars>>

\* that client receives its answer
ApiResponse ==
    /\ pc = "ui"
    /\ response # <<>>
    /\ response[1].to = "api"
    /\ response' = <<>>
    /\ UNCHANGED <<pc, rawRepos, now, repos, languages, suggestions, heuristicsInput,
                   recommendations, inputs, prevInputs, suggestion, recVars,
                   inspectVars, githubUser, commitState, commitConfirmed, remote,
                   request, route, written, previewVars>>

\* POST: a request that is refused, or a check or create-repo request, from
\* its first line to its return
CommitReadmePOST ==
    /\ pc = "ui"
    /\ request # <<>>
    /\ LET req == request[1]
           refusal == commitRouteRefusal(req)
       IN  /\ refusal # <<>> \/ req.action # "commit"
           /\ \/ /\ refusal # <<>>
                 /\ response' = refusal
                 /\ remote' = remote
              \/ /\ refusal = <<>>
                 /\ req.action = "check"
                 /\ response' =
                       IF ~remote.repoExists
                       THEN << Response(req.origin, "check", 200, Null, FALSE, FALSE,
                                        Null, 0) >>
                       ELSE << Response(req.origin, "check", 200, Null, FALSE, TRUE,
                                        remote.content, remote.sha) >>
                 /\ remote' = remote
              \/ /\ refusal = <<>>
                 /\ req.action = "create-repo"
                 /\ \/ /\ remote.repoExists
                       /\ response' = << Response(req.origin, "create-repo", 200, Null,
                                                  TRUE, FALSE, Null, 0) >>
                       /\ remote' = remote
                    \/ /\ ~remote.repoExists
                       /\ response' = << Response(req.origin, "create-repo", 200, Null,
                                                  TRUE, FALSE, Null, 0) >>
                       /\ remote' = [ remote EXCEPT !.repoExists = TRUE ]
                    \/ /\ ~remote.repoExists
                       /\ response' = << Response(req.origin, "create-repo", 500,
                                                  "GitHub API error: 403",
                                                  FALSE, FALSE, Null, 0) >>
                       /\ remote' = remote
    /\ request' = <<>>
    /\ UNCHANGED <<pc, rawRepos, now, repos, languages, suggestions, heuristicsInput,
                   recommendations, inputs, prevInputs, suggestion, recVars,
                   inspectVars, githubUser, commitState, commitConfirmed, route,
                   written, previewVars>>

\* POST, action commit, accepted: up to the answer of fetchCurrentReadme
CommitReadmeFetch ==
    /\ pc = "ui"
    /\ request # <<>>
    /\ request[1].action = "commit"
    /\ commitRouteRefusal(request[1]) = <<>>
    /\ route' = << [ origin |-> request[1].origin, content |-> request[1].content,
                     confirmed |-> request[1].confirmed, sha |-> remote.sha ] >>
    /\ request' = <<>>
    /\ UNCHANGED <<pc, rawRepos, now, repos, languages, suggestions, heuristicsInput,
                   recommendations, inputs, prevInputs, suggestion, recVars,
                   inspectVars, githubUser, commitState, commitConfirmed, remote,
                   response, written, previewVars>>

\* commitReadme with the SHA just fetched, and the return of POST
CommitReadmePut ==
    /\ pc = "ui"
    /\ route # <<>>
    /\ LET r == route[1]
       IN  IF putAccepted(r.sha)
           THEN /\ remote' = [ remote EXCEPT !.content = r.content, !.sha = @ + 1 ]
                /\ written' = << [ origin |-> r.origin, action |-> "commit",
                                   content |-> r.content, confirmed |-> r.confirmed,
                                   replaced |-> remote.sha,
                                   shown |-> commitState.readmeSha ] >>
                /\ response' = << Response(r.origin, "commit", 200, Null, TRUE, FALSE,
                                           Null, 0) >>
           ELSE /\ UNCHANGED <<remote, written>>
                /\ response' = << Response(r.origin, "commit", 500,
                       "Conflict: README was modified elsewhere. Please refresh and try again.",
                       FALSE, FALSE, Null, 0) >>
    /\ route' = <<>>
    /\ UNCHANGED <<pc, rawRepos, now, repos, languages, suggestions, heuristicsInput,
                   recommendations, inputs, prevInputs, suggestion, recVars,
                   inspectVars, githubUser, commitState, commitConfirmed, request,
                   previewVars>>

\* someone else changes README.md of the profile repository on GitHub
RemoteEdit ==
    /\ pc = "ui"
    /\ remote.repoExists
    /\ remote.sha < MaxSha
    /\ remote' = [ remote EXCEPT !.content = "# Theirs", !.sha = @ + 1 ]
    /\ UNCHANGED <<pc, rawRepos, now, repos, languages, suggestions, heuristicsInput,
                   recommendations, inputs, prevInputs, suggestion, recVars,
                   inspectVars, githubUser, commitState, commitConfirmed, request,
                   route, response, written, previewVars>>

\* startCommitFlow after its await
CheckResponse ==
    /\ pc = "ui"
    /\ response # <<>>
    /\ response[1].to = "ui"
    /\ response[1].action = "check"
    /\ LET data == response[1]
       IN  commitState' =
              IF data.error # Null THEN CommitState("error", Null, 0, data.error)
              ELSE IF ~data.repoExists
              THEN CommitState("no-repo", Null, 0, "Repository does not exist.")
              ELSE CommitState("preview", data.currentReadme, data.readmeSha, Null)
    /\ response' = <<>>
    /\ UNCHANGED <<pc, rawRepos, now, repos, languages, suggestions, heuristicsInput,
                   recommendations, inputs, prevInputs, suggestion, recVars,
                   inspectVars, githubUser, commitConfirmed, remote, request, route,
                   written, previewVars>>

\* createProfileRepo after its await: an error, or startCommitFlow again
CreateRepoResponse ==
    /\ pc = "ui"
    /\ response # <<>>
    /\ response[1].to = "ui"
    /\ response[1].action = "create-repo"
    /\ IF ~response[1].success
       THEN /\ commitState' =
                 CommitState("error", Null, 0,
                             IF response[1].error # Null THEN response[1].error
                             ELSE "Failed to create repository")
            /\ UNCHANGED <<commitConfirmed, request>>
       ELSE /\ commitState' = CommitState("checking", Null, 0, Null)
            /\ commitConfirmed' = FALSE
            /\ \E token \in BOOLEAN :
                  request' = << Request("ui", "check", Null, Null, token) >>
    /\ response' = <<>>
    /\ UNCHANGED <<pc, rawRepos, now, repos, languages, suggestions, heuristicsInput,
                   recommendations, inputs, prevInputs, suggestion, recVars,
                   inspectVars, githubUser, remote, route, written, previewVars>>

\* executeCommit after its await
CommitResponse ==
    /\ pc = "ui"
    /\ response # <<>>
    /\ response[1].to = "ui"
    /\ response[1].action = "commit"
    /\ IF ~response[1].success
       THEN /\ commitState' =
                 CommitState("error", Null, 0,
                             IF response[1].error # Null THEN response[1].error
                             ELSE "Failed to commit")
            /\ UNCHANGED commitConfirmed
       ELSE /\ commitState' = CommitState("success", Null, 0, Null)
            /\ commitConfirmed' = FALSE
    /\ response' = <<>>
    /\ UNCHANGED <<pc, rawRepos, now, repos, languages, suggestions, heuristicsInput,
                   recommendations, inputs, prevInputs, suggestion, recVars,
                   inspectVars, githubUser, remote, request, route, written,
                   previewVars>>

NextCommit ==
    \/ StartCommitFlowClick
    \/ ToggleCommitConfirmed
    \/ ExecuteCommitClick
    \/ CreateProfileRepoClick
    \/ cancelCommitFlow
    \/ ApiRequest
    \/ ApiResponse
    \/ CommitReadmePOST
    \/ CommitReadmeFetch
    \/ CommitReadmePut
    \/ RemoteEdit
    \/ CheckResponse
    \/ CreateRepoResponse
    \/ CommitResponse

SpecCommit == InitCommit /\ [][NextCommit]_vars

----------------------------------------------------------------------------
(* The live preview: lib/markdownFormatter.ts formatReadme, the route       *)
(* /api/generate-readme without OPENAI_API_KEY (the deterministic local     *)
(* generator), and generate() with its debounce effect in app/page.tsx.     *)
(*   - a README is a TLA+ string; the emoji of the headings are written     *)
(*     as their short names between colons, the dash and the ellipsis in    *)
(*     ASCII, the backquote as an apostrophe.                               *)
(*   - every request is answered with { markdown }: formatReadme does not   *)
(*     throw on the inputs of the form.  The answers arrive in any order.   *)

MaxInFlight == 2    \* generate-readme requests that can be unanswered at once

MAX == [ short_bio |-> 280, what_i_do |-> 200, tech_stack |-> 400,
         projects |-> 400, goal |-> 160, connect |-> 180 ]

\* the string of a sequence of characters
RECURSIVE Str(_)
Str(cs) == IF cs = <<>> THEN "" ELSE cs[1] \o Str(Tail(cs))

\* String.prototype.trim on a TLA+ string
RECURSIVE TrimString(_)
TrimString(s) ==
    IF Len(s) = 0 THEN s
    ELSE IF SubSeq(s, 1, 1) = " " THEN TrimString(SubSeq(s, 2, Len(s)))
    ELSE IF SubSeq(s, Len(s), Len(s)) = " " THEN TrimString(SubSeq(s, 1, Len(s) - 1))
    ELSE s

truncate(s, n) ==
    IF s = "" THEN ""
    ELSE IF Len(s) <= n THEN s
    ELSE TrimString(SubSeq(s, 1, n - 1)) \o "..."

emoji(emojiPreference, e) == IF emojiPreference = "none" THEN "" ELSE " " \o e

goalMap(profileGoal) ==
    CASE profileGoal = "job" ->
            "Looking for roles where I can build and improve developer tools."
      [] profileGoal = "open-source" ->
            "Contributing to open-source and collaborating with maintainers."
      [] profileGoal = "branding" ->
            "Sharpening my public portfolio and writing about projects."
      [] OTHER -> "Exploring meaningful work."

\* lines.join('\n') of the lines that formatReadme pushes
formatReadme(s0) ==
    LET name == Str(s0.name)
        role == Str(s0.role)
        titleName == IF name # "" THEN name
                     ELSE IF s0.username # <<>> THEN Str(s0.username)
                     ELSE "Your Name"
        bioParts ==
            (IF s0.sections.whatIDo /\ role # ""
             THEN << role \o " focused on " \o
                     (IF s0.techStack # <<>>
                      THEN Join(Slice(s0.techStack, 3), ", ")
                      ELSE "building software") >>
             ELSE IF role # "" THEN << role >>
             ELSE <<>>)
            \o << "Currently exploring projects and collaborations"
                  \o emoji(s0.emojiPreference, ":seedling:") >>
        shortBio == truncate(Join(bioParts, ". "), MAX.short_bio)
        projectLine(p) ==
            "- " \o (IF Truthy(p.name) THEN p.name ELSE "Project") \o " - " \o
            truncate(IF Truthy(p.impact) THEN p.impact
                     ELSE "Short one-line description of impact", MAX.projects)
        lines ==
            << "# :wave: Hi, I'm " \o titleName, "" >>
            \o (IF shortBio # "" THEN << shortBio, "" >> ELSE <<>>)
            \o (IF s0.sections.whatIDo
                THEN << "## :rocket: What I Do",
                        truncate(role \o " - I build and ship practical tools that solve developer problems.",
                                 MAX.what_i_do),
                        "" >>
                ELSE <<>>)
            \o (IF s0.sections.techStack
                THEN << "## :brain: Tech Stack",
                        IF s0.techStack # <<>>
                        THEN Join([ i \in 1..Len(s0.techStack) |-> "- " \o s0.techStack[i] ], "\n")
                        ELSE "- Not listed",
                        "" >>
                ELSE <<>>)
            \o (IF s0.sections.projects
                THEN << "## :pushpin: Featured Projects" >>
                     \o (IF s0.featuredProjects # <<>>
                         THEN [ i \in 1..Len(s0.featuredProjects) |->
                                  projectLine(s0.featuredProjects[i]) ]
                         ELSE << "- No projects listed" >>)
                     \o << "" >>
                ELSE <<>>)
            \o (IF s0.sections.goal
                THEN << "## :dart: Current Goal",
                        truncate(goalMap(s0.profileGoal), MAX.goal), "" >>
                ELSE <<>>)
            \o (IF s0.sections.connect
                THEN << "## :handshake: Let's Connect",
                        "- GitHub: 'https://github.com/" \o Str(s0.username) \o "'",
                        "- Email: (add your email)", "" >>
                ELSE <<>>)
    IN  Join(lines, "\n")

InitPreview ==
    /\ pc = "ui"
    /\ rawRepos = <<>>
    /\ now = 0
    /\ repos = <<>>
    /\ languages = <<>>
    /\ suggestions = <<>>
    /\ heuristicsInput = <<>>
    /\ recommendations = <<>>
    /\ inputs = defaultInputs
    /\ prevInputs = inputs
    /\ suggestion = <<>>
    /\ githubDataForHeuristics = <<>>
    /\ heuristicRecs = heuristicsEffect(inputs, githubDataForHeuristics)
    /\ rec = <<>>
    /\ applications = 0
    /\ IdleInspect
    /\ IdleCommit
    /\ MountedPreview

\* generate(it) up to its await
generateCall(it) ==
    /\ Len(generating) < MaxInFlight
    /\ loading' = TRUE
    /\ generating' = Append(generating, it)

\* the debounce timeout fires: generate on the inputs of the render that set it
DebounceFires ==
    /\ pc = "ui"
    /\ timer # <<>>
    /\ generateCall(timer[1])
    /\ timer' = <<>>
    /\ UNCHANGED <<pc, rawRepos, now, repos, languages, suggestions, heuristicsInput,
                   recommendations, inputs, prevInputs, suggestion, recVars,
                   inspectVars, commitVars, markdown>>

\* the Generate button, disabled while loading: generate on the current inputs
GenerateClick ==
    /\ pc = "ui"
    /\ ~loading
    /\ generateCall(inputs)
    /\ UNCHANGED <<pc, rawRepos, now, repos, languages, suggestions, heuristicsInput,
                   recommendations, inputs, prevInputs, suggestion, recVars,
                   inspectVars, commitVars, markdown, timer>>

\* generate after its await: the answer to any one of the requests arrives
GenerateResponse ==
    /\ pc = "ui"
    /\ \E k \in 1..Len(generating) :
          LET data == [ markdown |-> formatReadme(generating[k]) ]
          IN  /\ markdown' = IF data.markdown # "" THEN data.markdown ELSE markdown
              /\ generating' = RemoveAt(generating, k)
    /\ loading' = FALSE
    /\ UNCHANGED <<pc, rawRepos, now, repos, languages, suggestions, heuristicsInput,
                   recommendations, inputs, prevInputs, suggestion, recVars,
                   inspectVars, commitVars, timer>>

NextPreview ==
    \/ EditUsername
    \/ DebounceFires
    \/ GenerateClick
    \/ GenerateResponse

SpecPreview == InitPreview /\ [][NextPreview]_vars

----------------------------------------------------------------------------
(* Properties of the ranker and the normalizer (specification Spec) *)

Count(seq, v) == Cardinality({ k \in 1..Len(seq) : seq[k] = v })

Keeps(r) == r.fork = FALSE /\ r.archived = FALSE /\ r.size > 0

KeptIdx == { i \in 1..Len(rawRepos) : Keeps(rawRepos[i]) }

\* a < b in the order of strings
StrLess(a, b) ==
    \E k \in 1..(Min(Len(a), Len(b)) + 1) :
        /\ \A j \in 1..(k - 1) : a[j] = b[j]
        /\ \/ k > Len(a) /\ k <= Len(b)
           \/ k <= Len(a) /\ k <= Len(b) /\ a[k] < b[k]

\* input record i has to come before input record j
Precedes(i, j) ==
    LET a == rawRepos[i]
        b == rawRepos[j]
    IN  \/ a.stargazers_count > b.stargazers_count
        \/ /\ a.stargazers_count = b.stargazers_count
           /\ StrLess(b.updated_at, a.updated_at)
        \/ /\ a.stargazers_count = b.stargazers_count
           /\ a.updated_at = b.updated_at
           /\ i < j

\* the output position that order gives input record i
Rank(i) == 1 + Cardinality({ j \in KeptIdx : j # i /\ Precedes(j, i) })

\* C1: the output of filterAndRankRepos holds no fork, archived or empty
\* record and holds every other input record exactly once: as multisets, the
\* output is the normalized kept records.
C1_FilterKeepsExactlyTheKept ==
    pc = "inspected" =>
        /\ Len(repos) = Cardinality(KeptIdx)
        /\ \A v \in Range(repos) \cup { normalizeRepo(rawRepos[i]) : i \in 1..Len(rawRepos) } :
              Count(repos, v)
                = Cardinality({ i \in KeptIdx : normalizeRepo(rawRepos[i]) = v })

C1_Witness ==
    /\ pc = "inspected"
    /\ Len(rawRepos) = 3
    /\ Len(repos) = 1
    /\ \E i, j \in 1..3 : rawRepos[i].fork /\ rawRepos[j].size = 0

\* C2: of two kept records, the one with more stars comes first; with equal
\* stars, the one with the later updated_at string; with both equal, the one
\* that came first in the input.  Every kept record sits at the position this
\* order gives it.
C2_RankOrder ==
    pc = "inspected" =>
        \A i \in KeptIdx :
            /\ Rank(i) <= Len(repos)
            /\ repos[Rank(i)] = normalizeRepo(rawRepos[i])

C2_Witness ==
    /\ pc = "inspected"
    /\ \E i, j, k \in KeptIdx :
        /\ i < j /\ j < k
        \* an exact tie between different records, kept in input order
        /\ rawRepos[i].stargazers_count = rawRepos[j].stargazers_count
        /\ rawRepos[i].updated_at = rawRepos[j].updated_at
        /\ rawRepos[i] # rawRepos[j]
        /\ Rank(i) < Rank(j)
        \* a later record that the timestamp moves in front of both
        /\ rawRepos[k].stargazers_count = rawRepos[i].stargazers_count
        /\ Rank(k) < Rank(i)

NormalizedFrom(r, n) ==
    /\ DOMAIN n = { "name", "description", "language", "stars", "lastUpdated" }
    /\ n.name = r.name
    /\ n.stars = r.stargazers_count
    /\ n.lastUpdated = r.updated_at
    /\ (r.description = Null => n.description = "")
    /\ (r.description # Null => n.description = r.description)
    /\ (r.language = Null => n.language = "Unknown")
    /\ (r.language \notin { Null, "" } => n.language = r.language)

\* C3: normalizeRepo gives "" for an absent description and "Unknown" for an
\* absent language and passes name, stars and updated_at through; the ranked
\* list has one normalized record per kept input record.
C3_NormalizeDefaults ==
    pc = "inspected" =>
        /\ Len(repos) = Cardinality(KeptIdx)
        /\ \A k \in 1..Len(repos) : \E i \in KeptIdx : NormalizedFrom(rawRepos[i], repos[k])
        /\ \A i \in KeptIdx : \E k \in 1..Len(repos) : NormalizedFrom(rawRepos[i], repos[k])

C3_Witness ==
    /\ pc = "inspected"
    /\ \E i \in KeptIdx : rawRepos[i].description = Null /\ rawRepos[i].language = Null
    /\ \E i \in KeptIdx : rawRepos[i].description = "d" /\ rawRepos[i].language = "Rust"
    /\ \E k \in 1..Len(repos) : repos[k].description = "" /\ repos[k].language = "Unknown"

FirstIdx(l) == CHOOSE k \in 1..Len(repos) :
                  /\ repos[k].language = l
                  /\ \A j \in 1..(k - 1) : repos[j].language # l

\* C4: extractLanguages returns every language of the ranked list once, never
\* "Unknown", in the order of first occurrence.
C4_LanguagesUniqueInFirstSeenOrder ==
    pc = "inspected" =>
        /\ Range(languages) = { repos[k].language : k \in 1..Len(repos) } \ { "Unknown" }
        /\ \A i, j \in 1..Len(languages) : i # j => languages[i] # languages[j]
        /\ \A i, j \in 1..Len(languages) :
              i < j => FirstIdx(languages[i]) < FirstIdx(languages[j])

C4_Witness ==
    /\ pc = "inspected"
    /\ Len(repos) = 3
    /\ repos[1].language = "Unknown"
    /\ repos[2].language = repos[3].language
    /\ Len(languages) = 1

C4_WitnessOrder ==
    /\ pc = "inspected"
    /\ Len(repos) = 3
    /\ repos[1].language = "Rust"
    /\ repos[2].language = "Go"
    /\ repos[3].language = "Rust"
    /\ languages = <<"Rust", "Go">>

----------------------------------------------------------------------------
(* Properties of generateSuggestions (specification SpecSuggest) *)

IsNoReposWarning(s)  == s.type = "warning" /\ s.message = NoReposMessage /\ s.data = <<>>
IsNoRecentWarning(s) == s.type = "warning" /\ s.message = NoRecentMessage /\ s.data = <<>>
HasReposPayload(s)   == s.data # <<>> /\ s.data[1].repos # <<>>
HasLanguagesPayload(s) == s.data # <<>> /\ s.data[1].languages # <<>>
HasProjectPayload(s) == s.data # <<>> /\ s.data[1].project # <<>>

CountIf(seq, P(_)) == Cardinality({ k \in 1..Len(seq) : P(seq[k]) })

\* the number of repositories that get featured
TopN == IF Len(repos) < 4 THEN Len(repos) ELSE 4

\* C5 as stated: with an empty ranked list the only suggestion is the "no
\* repositories found" warning, whatever the language list.
C5_OnlyTheNoReposWarning ==
    (pc = "suggested" /\ Len(repos) = 0) =>
        /\ Len(suggestions) = 1
        /\ IsNoReposWarning(suggestions[1])

\* C5 (amended): with an empty ranked list generateSuggestions emits the "no
\* repositories found" warning once and first, no repository-feature
\* suggestion and no recent-activity warning; the one other suggestion it can
\* emit is the section note, which follows exactly when the language list is
\* not empty.
C5_NoReposWarningAndNoRepoSuggestion ==
    (pc = "suggested" /\ Len(repos) = 0) =>
        /\ Len(suggestions) = (IF Len(languages) > 0 THEN 2 ELSE 1)
        /\ IsNoReposWarning(suggestions[1])
        /\ \A k \in 1..Len(suggestions) :
              /\ suggestions[k].type # "repo"
              /\ ~IsNoRecentWarning(suggestions[k])
              /\ ~HasReposPayload(suggestions[k])
              /\ ~HasProjectPayload(suggestions[k])
        /\ Len(languages) > 0 =>
              /\ suggestions[2].type = "section"
              /\ suggestions[2].data[1].languages = <<languages>>

C5_Witness ==
    /\ pc = "suggested"
    /\ Len(repos) = 0
    /\ languages = <<"Go", "Rust">>
    /\ Len(suggestions) = 2

\* C6: with a non-empty ranked list the first suggestion is the one
\* repository-feature suggestion that carries the first min(n, 4) ranked
\* repositories, in rank order, and there is no "no repositories" warning.
C6_FirstSuggestionFeaturesTopRepos ==
    (pc = "suggested" /\ Len(repos) > 0) =>
        /\ Len(suggestions) >= 1
        /\ suggestions[1].type = "repo"
        /\ HasReposPayload(suggestions[1])
        /\ suggestions[1].data[1].languages = <<>>
        /\ suggestions[1].data[1].project = <<>>
        /\ LET payload == suggestions[1].data[1].repos[1]
           IN  /\ Len(payload) = TopN
               /\ \A i \in 1..TopN : payload[i] = repos[i]
        /\ CountIf(suggestions, HasReposPayload) = 1
        /\ CountIf(suggestions, IsNoReposWarning) = 0

C6_Witness ==
    /\ pc = "suggested"
    /\ Len(repos) = 5
    /\ repos[4] # repos[5]
    /\ Len(suggestions[1].data[1].repos[1]) = 4

\* age of r in ticks is at most 180 days, for a timestamp that parses
WithinWindow(r) ==
    /\ r.lastUpdated # <<>>
    /\ now - DecimalValue(r.lastUpdated) <= 180 * TicksPerDay

\* C7: the lack-of-recent-activity warning is emitted, once, exactly when the
\* ranked list is non-empty and none of its repositories was modified within
\* 180 days of now (180 days exactly is recent).
C7_NoRecentWarningIffAllStale ==
    pc = "suggested" =>
        CountIf(suggestions, IsNoRecentWarning)
            = (IF Len(repos) > 0 /\ \A k \in 1..Len(repos) : ~WithinWindow(repos[k])
               THEN 1 ELSE 0)

\* one repository exactly 180 days old, the others older or undated: no warning
C7_Witness ==
    /\ pc = "suggested"
    /\ Len(repos) >= 2
    /\ \E k \in 1..Len(repos) :
        /\ repos[k].lastUpdated # <<>>
        /\ now - DecimalValue(repos[k].lastUpdated) = 180 * TicksPerDay
        /\ \A j \in 1..Len(repos) : j # k => repos[j].lastUpdated = <<>>
    /\ CountIf(suggestions, IsNoRecentWarning) = 0

\* the same lists one tick later: the warning
C7_WitnessStale ==
    /\ pc = "suggested"
    /\ Len(repos) >= 2
    /\ \E k \in 1..Len(repos) :
        /\ repos[k].lastUpdated # <<>>
        /\ now - DecimalValue(repos[k].lastUpdated) = 180 * TicksPerDay + 1
    /\ CountIf(suggestions, IsNoRecentWarning) = 1

\* C8: the last min(n, 4) suggestions are the individual repository-feature
\* suggestions of the first min(n, 4) ranked repositories, in rank order, each
\* with payload {name, impact}, impact being the description or, when that is
\* empty, "A project on GitHub"; no other suggestion carries a project.
C8_IndividualSuggestionsLast ==
    pc = "suggested" =>
        LET n == Len(suggestions)
        IN  /\ n >= TopN
            /\ \A i \in 1..TopN :
                  LET s == suggestions[n - TopN + i]
                  IN  /\ s.type = "repo"
                      /\ s.data # <<>>
                      /\ s.data[1].repos = <<>>
                      /\ s.data[1].languages = <<>>
                      /\ s.data[1].project =
                            << [ name   |-> repos[i].name,
                                 impact |-> IF repos[i].description = ""
                                            THEN "A project on GitHub"
                                            ELSE repos[i].description ] >>
            /\ \A j \in 1..(n - TopN) : ~HasProjectPayload(suggestions[j])

C8_Witness ==
    /\ pc = "suggested"
    /\ Len(repos) = 5
    /\ repos[1].description = ""
    /\ repos[2].description = "d"
    /\ Len(languages) > 0
    /\ suggestions[Len(suggestions)].data[1].project[1].name = repos[4].name

----------------------------------------------------------------------------
(* Properties of the heuristics engine (specification SpecHeur) *)

userInputs == heuristicsInput.userInputs
githubData == heuristicsInput.githubData

HasAction(r, type, target) ==
    /\ r.suggestedAction # <<>>
    /\ r.suggestedAction[1].type = type
    /\ r.suggestedAction[1].target = target

IsEnableProjects(r) == HasAction(r, "enable", "projects")

\* C9: every recommendation that generateHeuristicRecommendations returns has
\* a non-empty explanation.
C9_ExplanationNeverEmpty ==
    pc = "recommended" =>
        \A k \in 1..Len(recommendations) :
            /\ recommendations[k].explanation # ""
            /\ Len(recommendations[k].explanation) > 0

\* facts absent: the informational tech-stack note, a tone recommendation and
\* a warning together
C9_Witness ==
    /\ pc = "recommended"
    /\ githubData = <<>>
    /\ \E k \in 1..Len(recommendations) :
          /\ recommendations[k].recommendationType = "section"
          /\ recommendations[k].suggestedAction = <<>>
    /\ \E k \in 1..Len(recommendations) : recommendations[k].recommendationType = "tone"
    /\ \E k \in 1..Len(recommendations) : recommendations[k].recommendationType = "warning"

StrongCount ==
    Cardinality({ k \in 1..Len(githubData[1].topRepos) :
                    githubData[1].topRepos[k].stars >= 5 })

\* C10: with facts present, one "enable projects" recommendation, with action
\* {enable, projects, true}, when at least 3 of the ranked repositories have 5
\* stars or more and the projects section is disabled; none otherwise.
C10_EnableProjectsIffThreeStrong ==
    (pc = "recommended" /\ githubData # <<>>) =>
        /\ CountIf(recommendations, IsEnableProjects)
             = (IF StrongCount >= 3 /\ ~userInputs.sections.projects THEN 1 ELSE 0)
        /\ \A k \in 1..Len(recommendations) :
              IsEnableProjects(recommendations[k]) =>
                  /\ recommendations[k].suggestedAction[1].value = TRUE
                  /\ recommendations[k].recommendationType = "section"

\* 4 repositories, 3 of them with 5 stars, projects section disabled
C10_Witness ==
    /\ pc = "recommended"
    /\ githubData # <<>>
    /\ Len(githubData[1].topRepos) = 4
    /\ StrongCount = 3
    /\ ~userInputs.sections.projects
    /\ CountIf(recommendations, IsEnableProjects) = 1

IsDisableProjects(r) == HasAction(r, "disable", "projects")

\* C11: with facts present, one "disable projects" recommendation, with
\* action {disable, projects, false}, when the projects section is enabled and
\* the facts show zero repositories, or no recent activity together with an
\* empty top-repositories slice; none otherwise, and none when the section is
\* already disabled.
C11_DisableProjectsIffEnabledAndInactive ==
    (pc = "recommended" /\ githubData # <<>>) =>
        /\ CountIf(recommendations, IsDisableProjects)
             = (IF /\ userInputs.sections.projects
                   /\ \/ githubData[1].repoCount = 0
                      \/ /\ ~githubData[1].hasRecentActivity
                         /\ Len(githubData[1].topRepos) = 0
                THEN 1 ELSE 0)
        /\ \A k \in 1..Len(recommendations) :
              IsDisableProjects(recommendations[k]) =>
                  /\ recommendations[k].suggestedAction[1].value = FALSE
                  /\ recommendations[k].recommendationType = "section"
        /\ ~userInputs.sections.projects
              => CountIf(recommendations, IsDisableProjects) = 0

\* repositories exist, none recent, empty slice, section enabled: emitted
C11_Witness ==
    /\ pc = "recommended"
    /\ githubData # <<>>
    /\ githubData[1].repoCount > 0
    /\ ~githubData[1].hasRecentActivity
    /\ Len(githubData[1].topRepos) = 0
    /\ userInputs.sections.projects
    /\ CountIf(recommendations, IsDisableProjects) = 1

\* zero repositories but the section already disabled: not emitted
C11_WitnessDisabled ==
    /\ pc = "recommended"
    /\ githubData # <<>>
    /\ githubData[1].repoCount = 0
    /\ ~userInputs.sections.projects
    /\ CountIf(recommendations, IsDisableProjects) = 0

IsPopulateTechStack(r) == HasAction(r, "change", "techStack")

DetectedCount == Len(githubData[1].primaryLanguages)

\* C12: with facts present and k > 0 detected languages, an empty declared
\* technology list gets exactly one recommendation to populate it, whose value
\* is the first min(k, 5) detected languages in order, whether the technology
\* section is enabled or not; a non-empty declared list gets none.
C12_PopulateTechStackWithFirstFive ==
    (pc = "recommended" /\ githubData # <<>> /\ DetectedCount > 0) =>
        /\ CountIf(recommendations, IsPopulateTechStack)
             = (IF Len(userInputs.techStack) = 0 THEN 1 ELSE 0)
        /\ \A k \in 1..Len(recommendations) :
              IsPopulateTechStack(recommendations[k]) =>
                  recommendations[k].suggestedAction[1].value
                      = [ i \in 1..Min(DetectedCount, 5) |->
                            githubData[1].primaryLanguages[i] ]

\* six detected languages, empty declared list, section disabled: five listed
C12_Witness ==
    /\ pc = "recommended"
    /\ githubData # <<>>
    /\ DetectedCount = 6
    /\ Len(userInputs.techStack) = 0
    /\ ~userInputs.sections.techStack
    /\ \E k \in 1..Len(recommendations) :
          /\ IsPopulateTechStack(recommendations[k])
          /\ Len(recommendations[k].suggestedAction[1].value) = 5

\* one detected language, declared list non-empty: none
C12_WitnessDeclared ==
    /\ pc = "recommended"
    /\ githubData # <<>>
    /\ DetectedCount = 1
    /\ Len(userInputs.techStack) > 0
    /\ CountIf(recommendations, IsPopulateTechStack) = 0

IsAddTechnologies(r) ==
    /\ r.recommendationType = "section"
    /\ r.message = "Add technologies to your tech stack"

\* C13: with no facts, one "disable projects" recommendation when the
\* projects section is enabled and the featured-project list is empty, none
\* otherwise; one "add technologies" recommendation when the technology
\* section is enabled and the declared technology list is empty, none
\* otherwise, and it carries no suggested action.
C13_NoFactsSectionRules ==
    (pc = "recommended" /\ githubData = <<>>) =>
        /\ CountIf(recommendations, IsDisableProjects)
             = (IF /\ userInputs.sections.projects
                   /\ Len(userInputs.featuredProjects) = 0
                THEN 1 ELSE 0)
        /\ CountIf(recommendations, IsAddTechnologies)
             = (IF /\ userInputs.sections.techStack
                   /\ Len(userInputs.techStack) = 0
                THEN 1 ELSE 0)
        /\ \A k \in 1..Len(recommendations) :
              /\ IsAddTechnologies(recommendations[k])
                    => recommendations[k].suggestedAction = <<>>
              /\ recommendations[k].recommendationType = "section"
                    => \/ IsDisableProjects(recommendations[k])
                       \/ IsAddTechnologies(recommendations[k])

\* no facts, both sections enabled and both lists empty: both emitted
C13_Witness ==
    /\ pc = "recommended"
    /\ githubData = <<>>
    /\ userInputs.sections.projects
    /\ userInputs.sections.techStack
    /\ Len(userInputs.featuredProjects) = 0
    /\ Len(userInputs.techStack) = 0
    /\ CountIf(recommendations, IsDisableProjects) = 1
    /\ CountIf(recommendations, IsAddTechnologies) = 1

\* no facts, both lists empty but both sections disabled: neither emitted
C13_WitnessDisabled ==
    /\ pc = "recommended"
    /\ githubData = <<>>
    /\ ~userInputs.sections.projects
    /\ ~userInputs.sections.techStack
    /\ Len(userInputs.featuredProjects) = 0
    /\ Len(userInputs.techStack) = 0
    /\ CountIf(recommendations, IsDisableProjects) = 0
    /\ CountIf(recommendations, IsAddTechnologies) = 0

IsTone(r) == r.recommendationType = "tone"

ToneRecs == SelectSeq(recommendations, IsTone)

\* the tones that the five rules of the contract recommend, rule by rule
ExpectedTones ==
    LET student == /\ userInputs.careerStage = "student"
                   /\ githubData = <<>> \/ ~githubData[1].hasRecentActivity
                   /\ userInputs.tone # "friendly"
        popular == /\ githubData # <<>>
                   /\ githubData[1].totalStars >= 50
                   /\ githubData[1].hasRecentActivity
                   /\ userInputs.tone \in { "minimal", "friendly" }
        openSource == userInputs.profileGoal = "open-source" /\ userInputs.tone = "minimal"
        founder == userInputs.careerStage = "founder" /\ userInputs.tone # "founder"
        job == /\ userInputs.profileGoal = "job"
               /\ userInputs.careerStage = "professional"
               /\ userInputs.tone # "confident"
    IN  (IF student THEN << "friendly" >> ELSE <<>>)
            \o (IF popular THEN << "confident" >> ELSE <<>>)
            \o (IF openSource THEN << "friendly" >> ELSE <<>>)
            \o (IF founder THEN << "founder" >> ELSE <<>>)
            \o (IF job THEN << "confident" >> ELSE <<>>)

\* C14: the tone recommendations are exactly those of the five tone rules
\* whose predicate holds, every one of them (no early exit), each with action
\* {change, tone, value}: student with no facts or no recent activity and tone
\* not friendly -> friendly; total stars >= 50 with recent activity and tone
\* minimal or friendly -> confident; open-source goal and minimal tone ->
\* friendly; founder and tone not founder -> founder; job goal, professional
\* and tone not confident -> confident.
C14_ToneRulesAllEvaluated ==
    pc = "recommended" =>
        /\ \A k \in 1..Len(ToneRecs) : HasAction(ToneRecs[k], "change", "tone")
        /\ [ k \in 1..Len(ToneRecs) |-> ToneRecs[k].suggestedAction[1].value ]
             = ExpectedTones

\* 50 stars with recent activity, professional looking for a job, friendly
\* tone: rules 2 and 5 both recommend
C14_Witness ==
    /\ pc = "recommended"
    /\ githubData # <<>>
    /\ githubData[1].totalStars = 50
    /\ githubData[1].hasRecentActivity
    /\ userInputs.careerStage = "professional"
    /\ userInputs.profileGoal = "job"
    /\ userInputs.tone = "friendly"
    /\ Len(ToneRecs) = 2

\* a founder without facts gets the founder recommendation
C14_WitnessFounder ==
    /\ pc = "recommended"
    /\ githubData = <<>>
    /\ userInputs.careerStage = "founder"
    /\ userInputs.tone = "minimal"
    /\ userInputs.profileGoal = "branding"
    /\ Len(ToneRecs) = 1
    /\ ToneRecs[1].suggestedAction[1].value = "founder"

HasMessage(m) == \E k \in 1..Len(recommendations) : recommendations[k].message = m

MessageCount(m) ==
    Cardinality({ k \in 1..Len(recommendations) : recommendations[k].message = m })

LimitedActivityMessage == "Your profile shows limited recent activity"
MostlyForksMessage == "Most of your repositories appear to be forks"
NoStarsMessage == "Your repositories haven't received stars yet"
FewReposMessage == "You have a small number of public repositories"

\* C15: with facts present, the limited-recent-activity warning is emitted
\* exactly when there is no recent activity and the repository count is > 0;
\* the mostly-forks warning exactly when the fork ratio is strictly above 0.7
\* and the repository count is > 2; the no-stars warning exactly when the
\* total of stars is 0 and the repository count is > 0; each whatever the
\* other two do.
C15_FactWarningsByThreshold ==
    (pc = "recommended" /\ githubData # <<>>) =>
        /\ MessageCount(LimitedActivityMessage)
             = (IF ~githubData[1].hasRecentActivity /\ githubData[1].repoCount > 0
                THEN 1 ELSE 0)
        /\ MessageCount(MostlyForksMessage)
             = (IF githubData[1].forkRatio > 70 /\ githubData[1].repoCount > 2
                THEN 1 ELSE 0)
        /\ MessageCount(NoStarsMessage)
             = (IF githubData[1].totalStars = 0 /\ githubData[1].repoCount > 0
                THEN 1 ELSE 0)

\* fork ratio 0.71 with 3 repositories, recent and starred: only the
\* mostly-forks warning of the three
C15_Witness ==
    /\ pc = "recommended"
    /\ githubData # <<>>
    /\ githubData[1].forkRatio = 71
    /\ githubData[1].repoCount = 3
    /\ githubData[1].hasRecentActivity
    /\ githubData[1].totalStars > 0
    /\ HasMessage(MostlyForksMessage)
    /\ ~HasMessage(LimitedActivityMessage)
    /\ ~HasMessage(NoStarsMessage)

\* fork ratio exactly 0.7 with 3 stale, unstarred repositories: the other two
\* warnings and no mostly-forks warning
C15_WitnessAtThreshold ==
    /\ pc = "recommended"
    /\ githubData # <<>>
    /\ githubData[1].forkRatio = 70
    /\ githubData[1].repoCount = 3
    /\ ~HasMessage(MostlyForksMessage)
    /\ HasMessage(LimitedActivityMessage)
    /\ HasMessage(NoStarsMessage)

\* C16 as stated: with facts present, the small-number-of-repositories
\* warning is emitted exactly when the repository count is greater than 0 and
\* at most 3.
C16_FewReposWarningUpToThree ==
    (pc = "recommended" /\ githubData # <<>>) =>
        MessageCount(FewReposMessage)
            = (IF githubData[1].repoCount > 0 /\ githubData[1].repoCount <= 3
               THEN 1 ELSE 0)

MissingRoleMessage == "Your primary role is not specified"
RealNameMessage == "Remember to add your real name"

IsBlank(s) == \A k \in 1..Len(s) : s[k] \in Whitespace

\* C17: with or without facts, the missing-role warning is emitted exactly
\* when the role is empty or only whitespace, and the real-name warning
\* exactly when the name is empty, only whitespace, or "Your Name".
C17_CompletenessWarningsWhateverTheFacts ==
    pc = "recommended" =>
        /\ MessageCount(MissingRoleMessage) = (IF IsBlank(userInputs.role) THEN 1 ELSE 0)
        /\ MessageCount(RealNameMessage)
             = (IF IsBlank(userInputs.name) \/ userInputs.name = YourName
                THEN 1 ELSE 0)

\* no facts, whitespace-only role, real name: the role warning alone
C17_Witness ==
    /\ pc = "recommended"
    /\ githubData = <<>>
    /\ userInputs.role = << " " >>
    /\ userInputs.name = << "A", "d", "a" >>
    /\ HasMessage(MissingRoleMessage)
    /\ ~HasMessage(RealNameMessage)

\* facts present, padded role, whitespace-only name: the name warning alone
C17_WitnessFacts ==
    /\ pc = "recommended"
    /\ githubData # <<>>
    /\ userInputs.role = << " ", "D", "e", "v", " " >>
    /\ userInputs.name = << " ", "\t" >>
    /\ ~HasMessage(MissingRoleMessage)
    /\ HasMessage(RealNameMessage)

\* 3 repositories: the code's test repoCount < 3 gives no warning
C16_ThreeReposNoWarning ==
    /\ pc = "recommended"
    /\ githubData # <<>>
    /\ githubData[1].repoCount = 3
    /\ ~HasMessage(FewReposMessage)

\* the section rules under if (githubData)
FactSectionMessages ==
    { "Consider hiding the Featured Projects section",
      "Consider enabling the Featured Projects section",
      "Consider adding a Tech Stack section manually",
      "Your tech stack is empty but we detected languages" }

FactWarningMessages ==
    { LimitedActivityMessage, MostlyForksMessage, NoStarsMessage, FewReposMessage }

\* the tone rules that read hasRecentActivity or totalStars
StudentToneMessage == "Consider a friendly, learning-focused tone"
PopularToneMessage == "Consider a more confident tone"

\* C18 as stated: with no facts, no recommendation comes from a rule that
\* reads the facts: none of the four fact warnings, none of the fact-based
\* section rules, and neither of the two tone rules whose predicate reads
\* recent activity or total stars.
C18_NoFactsNoFactRule ==
    (pc = "recommended" /\ githubData = <<>>) =>
        \A k \in 1..Len(recommendations) :
            recommendations[k].message
                \notin FactWarningMessages \cup FactSectionMessages
                          \cup { StudentToneMessage, PopularToneMessage }

\* C18, amended: with no facts, none of the four fact warnings, none of the
\* fact-based section rules and no total-stars tone recommendation is
\* emitted; the student tone rule takes missing facts for no recent activity
\* and recommends "friendly" exactly when the career stage is student and the
\* tone is not friendly.
C18_NoFactsOnlyStudentRuleFires ==
    (pc = "recommended" /\ githubData = <<>>) =>
        /\ \A k \in 1..Len(recommendations) :
              recommendations[k].message
                  \notin FactWarningMessages \cup FactSectionMessages
                            \cup { PopularToneMessage }
        /\ MessageCount(StudentToneMessage)
             = (IF userInputs.careerStage = "student" /\ userInputs.tone # "friendly"
                THEN 1 ELSE 0)

\* a student with the minimal tone and no facts: the student rule recommends
C18_Witness ==
    /\ pc = "recommended"
    /\ githubData = <<>>
    /\ userInputs.careerStage = "student"
    /\ userInputs.tone = "minimal"
    /\ HasMessage(StudentToneMessage)
    /\ Len(recommendations) > 0

TargetsProjects(r) == r.suggestedAction # <<>> /\ r.suggestedAction[1].target = "projects"

\* C27: one call of generateHeuristicRecommendations returns at most one
\* recommendation whose action targets the projects section, so never an
\* enable-projects together with a disable-projects recommendation.
C27_AtMostOneProjectsAction ==
    pc = "recommended" =>
        /\ CountIf(recommendations, TargetsProjects) <= 1
        /\ ~(/\ CountIf(recommendations, IsEnableProjects) > 0
              /\ CountIf(recommendations, IsDisableProjects) > 0)

\* zero repositories reported with three strong ones in the slice, section
\* enabled: the disable rule fires, the enable rule does not
C27_Witness ==
    /\ pc = "recommended"
    /\ githubData # <<>>
    /\ githubData[1].repoCount = 0
    /\ StrongCount >= 3
    /\ userInputs.sections.projects
    /\ CountIf(recommendations, TargetsProjects) = 1
    /\ CountIf(recommendations, IsDisableProjects) = 1

----------------------------------------------------------------------------
(* Properties of applySuggestion (specification SpecApply) *)

Applied == pc = "ui" /\ suggestion # <<>>

AppliedProject == suggestion[1].data[1].project[1]
AppliedLanguages == suggestion[1].data[1].languages[1]

NamedLike(ps, n) == { k \in 1..Len(ps) : ps[k].name = n }

OthersOf(ps, n) ==
    LET OtherName(q) == q.name # n
    IN  SelectSeq(ps, OtherName)

UniqueByName(ps) == \A i, j \in 1..Len(ps) : ps[i].name = ps[j].name => i = j

\* C19: after a suggestion with payload project {name, impact} is applied,
\* the featured-project list has exactly one entry of that name, with the
\* payload's impact; the entries of other names are the old ones, unchanged
\* and in their order; with no old entry of that name the list is the old
\* list with the payload appended; a list unique by name stays so.
C19_ProjectReplacedOrAppended ==
    (Applied /\ HasProjectPayload(suggestion[1])) =>
        LET old == prevInputs.featuredProjects
            new == inputs.featuredProjects
            n   == AppliedProject.name
        IN  /\ Cardinality(NamedLike(new, n)) = 1
            /\ \A k \in NamedLike(new, n) : new[k].impact = AppliedProject.impact
            /\ OthersOf(new, n) = OthersOf(old, n)
            /\ NamedLike(old, n) = {} => new = Append(old, AppliedProject)
            /\ UniqueByName(old) => UniqueByName(new)
            /\ UniqueByName(old) /\ NamedLike(old, n) # {} => Len(new) = Len(old)

\* the list held project "a" with another impact: it now holds the payload's
C19_Witness ==
    /\ Applied
    /\ HasProjectPayload(suggestion[1])
    /\ Len(prevInputs.featuredProjects) = 2
    /\ prevInputs.featuredProjects[1].name = AppliedProject.name
    /\ prevInputs.featuredProjects[1].impact # AppliedProject.impact
    /\ prevInputs.featuredProjects[2].name # AppliedProject.name
    /\ inputs.featuredProjects
          = << prevInputs.featuredProjects[2], AppliedProject >>

\* no project of that name in the list: appended
C19_WitnessAppended ==
    /\ Applied
    /\ HasProjectPayload(suggestion[1])
    /\ Len(prevInputs.featuredProjects) = 1
    /\ prevInputs.featuredProjects[1].name # AppliedProject.name
    /\ Len(inputs.featuredProjects) = 2
    /\ inputs.featuredProjects[2] = AppliedProject

NoDuplicates(xs) == \A i, j \in 1..Len(xs) : xs[i] = xs[j] => i = j

FirstIndex(xs, x) == CHOOSE k \in 1..Len(xs) : xs[k] = x /\ \A j \in 1..(k - 1) : xs[j] # x

\* C20: after a suggestion with a languages payload is applied, the
\* technology list has no duplicates and holds exactly the old entries and the
\* payload's languages: the old entries first, in their old order, then the
\* languages that were not in the list, in payload order.
C20_TechStackIsOrderedUnion ==
    (Applied /\ HasLanguagesPayload(suggestion[1])) =>
        LET old == prevInputs.techStack
            new == inputs.techStack
            Key(x) == IF x \in Range(old) THEN FirstIndex(old, x)
                      ELSE Len(old) + FirstIndex(AppliedLanguages, x)
        IN  /\ NoDuplicates(new)
            /\ Range(new) = Range(old) \cup Range(AppliedLanguages)
            /\ \A i, j \in 1..Len(new) : i < j => Key(new[i]) < Key(new[j])

\* ["Go", "Rust"] applied to ["Go"] gives ["Go", "Rust"]
C20_Witness ==
    /\ Applied
    /\ HasLanguagesPayload(suggestion[1])
    /\ AppliedLanguages = << "Go", "Rust" >>
    /\ prevInputs.techStack = << "Go" >>
    /\ inputs.techStack = << "Go", "Rust" >>

\* ["Go", "Rust"] applied to ["Rust", "Go"] changes nothing
C20_WitnessAllPresent ==
    /\ Applied
    /\ HasLanguagesPayload(suggestion[1])
    /\ AppliedLanguages = << "Go", "Rust" >>
    /\ prevInputs.techStack = << "Rust", "Go" >>
    /\ inputs.techStack = << "Rust", "Go" >>

----------------------------------------------------------------------------
(* Properties of applyHeuristicRecommendation (specification SpecRec) *)

AppliedRec == pc = "ui" /\ rec # <<>>

AppliedAction == rec[1].suggestedAction[1]

AppliedIs(type, target) == AppliedRec /\ HasAction(rec[1], type, target)

\* C21 as stated: applying a recommendation with action {change, tone, v}
\* sets the tone to v and applying one with action {change, goal, v} sets the
\* goal category (profileGoal) to v; every other field keeps its value.
C21_ChangeOverwritesToneOrGoal ==
    /\ (AppliedIs("change", "tone") /\ AppliedAction.value \in Tones)
          => inputs = [ prevInputs EXCEPT !.tone = AppliedAction.value ]
    /\ (AppliedIs("change", "goal") /\ AppliedAction.value \in ProfileGoals)
          => inputs = [ prevInputs EXCEPT !.profileGoal = AppliedAction.value ]

\* {change, goal, "branding"} applied to a profile with goal "job": the goal
\* category is still "job"
C21_GoalNotOverwritten ==
    /\ AppliedIs("change", "goal")
    /\ AppliedAction.value = "branding"
    /\ prevInputs.profileGoal = "job"
    /\ inputs.profileGoal = "job"
    /\ inputs # prevInputs

SectionNames == { "projects", "techStack", "goal", "whatIDo", "connect" }

\* C22 as stated: applying a recommendation with action enable (disable) on a
\* section sets that section's visibility flag to true (false) and changes
\* nothing else, the technology list included.
C22_EnableDisableSetsSectionFlag ==
    \A tg \in SectionNames :
        /\ AppliedIs("enable", tg)
              => inputs = [ prevInputs EXCEPT !.sections[tg] = TRUE ]
        /\ AppliedIs("disable", tg)
              => inputs = [ prevInputs EXCEPT !.sections[tg] = FALSE ]

\* the engine's {enable, techStack, true} applied with the section hidden:
\* the section is still hidden and the technology list has grown
C22_TechStackListAltered ==
    /\ AppliedIs("enable", "techStack")
    /\ AppliedAction.value = TRUE
    /\ ~prevInputs.sections.techStack
    /\ ~inputs.sections.techStack
    /\ Len(inputs.techStack) = Len(prevInputs.techStack) + 1

----------------------------------------------------------------------------
(* Idempotence of applying an item (specification SpecTwice) *)

\* C23: for every ProfileIntent and every suggestion or recommendation that
\* the engine emits, the ProfileIntent after the second application of the
\* item equals the ProfileIntent after the first.
C23_SecondApplicationChangesNothing ==
    (pc = "apply" /\ applications >= 2) => inputs = prevInputs

\* a languages suggestion applied twice to a list with a repeated entry
C23_Witness ==
    /\ pc = "apply"
    /\ applications = 2
    /\ suggestion # <<>>
    /\ HasLanguagesPayload(suggestion[1])
    /\ AppliedLanguages = << "Go", "Rust" >>
    /\ inputs.techStack = << "Go", "TypeScript", "Rust" >>

\* the engine's {enable, techStack, true} applied twice
C23_WitnessRec ==
    /\ pc = "apply"
    /\ applications = 2
    /\ rec # <<>>
    /\ HasAction(rec[1], "enable", "techStack")
    /\ inputs.techStack # <<>>
    /\ inputs.techStack[Len(inputs.techStack)] = JsTrue

----------------------------------------------------------------------------
(* Properties of the page (specification SpecUI) *)

\* C24: the inputs change only in a step that is a form edit or a click on
\* Apply: a refused or started inspection, the arrival of its response or of
\* its error, and the regeneration of the recommendations that comes with
\* them leave the inputs as they are.
C24_InputsChangeOnlyByEditOrApply ==
    [][ /\ inputs' # inputs
          => \/ EditUsername
             \/ ApplySuggestionClick
             \/ ApplyHeuristicRecommendationClick
        /\ (\/ InspectGitHubRefused
            \/ InspectGitHubClick
            \/ InspectResponse
            \/ InspectResponseError)
          => inputs' = inputs ]_vars

\* an inspection has answered with suggestions, facts and regenerated
\* recommendations, nothing has been applied, and the inputs are the typed ones
C24_Witness ==
    /\ pc = "ui"
    /\ ~inspecting
    /\ Len(suggestions) > 1
    /\ githubDataForHeuristics # <<>>
    /\ heuristicRecs = heuristicsEffect(inputs, githubDataForHeuristics)
    /\ suggestion = <<>>
    /\ rec = <<>>
    /\ inputs = [ defaultInputs EXCEPT !.username = << "o", "c", "t" >> ]

\* C26: the facts that inspectGitHub stores always have fork ratio 0, and the
\* mostly-forks warning is never among the recommendations shown, whatever
\* was fetched.
C26_ForkRatioZeroNoForksWarning ==
    pc = "ui" =>
        /\ githubDataForHeuristics # <<>> => githubDataForHeuristics[1].forkRatio = 0
        /\ \A k \in 1..Len(heuristicRecs) :
              heuristicRecs[k].message # "Most of your repositories appear to be forks"

\* three repositories inspected: the repository-count half of the rule holds
C26_Witness ==
    /\ pc = "ui"
    /\ githubDataForHeuristics # <<>>
    /\ githubDataForHeuristics[1].repoCount > 2
    /\ Len(heuristicRecs) > 0
    /\ \A k \in 1..Len(heuristicRecs) :
          heuristicRecs[k].message # "Most of your repositories appear to be forks"

----------------------------------------------------------------------------
(* Convergence of the tone recommendations (specification SpecTone) *)

ToneRecsShown ==
    { k \in 1..Len(heuristicRecs) : heuristicRecs[k].recommendationType = "tone" }

\* C28: whatever the ProfileIntent and the facts, no sequence of applications
\* of tone recommendations, each followed by the regeneration of the list, is
\* longer than 3; after the third no tone recommendation is shown, and one
\* that was applied is never shown for the tone just set.
C28_ToneApplicationsConverge ==
    pc = "ui" =>
        /\ applications <= 3
        /\ applications = 3 => ToneRecsShown = {}
        /\ \A k \in ToneRecsShown :
              heuristicRecs[k].suggestedAction[1].value # inputs.tone

\* a founder with an open-source goal, 50 stars and recent activity, starting
\* from the minimal tone: friendly, confident, founder
C28_Witness ==
    /\ pc = "ui"
    /\ applications = 3
    /\ inputs.careerStage = "founder"
    /\ inputs.tone = "founder"
    /\ prevInputs.tone = "confident"
    /\ ToneRecsShown = {}

----------------------------------------------------------------------------
(* Properties of the commit flow (specification SpecCommit) *)

\* the step writes README.md on GitHub through the route
RouteWrites == written' # written

\* the step is executeCommit sending its request
PageSendsCommit ==
    /\ request = <<>>
    /\ request' # <<>>
    /\ request'[1].origin = "ui"
    /\ request'[1].action = "commit"

\* the step is the route taking up a commit request without confirmed === true
RouteTakesUnconfirmed ==
    /\ request # <<>>
    /\ request' = <<>>
    /\ request[1].action = "commit"
    /\ request[1].confirmed # JsTrue

\* C25: in every step, README.md is written only for a commit request with
\* confirmed === true and a non-empty string as content; the page sends a
\* commit request only while the confirmation checkbox is checked; and a
\* commit request without confirmed === true gets an error as its answer,
\* goes no further in the route and writes nothing.
C25_NoCommitWithoutConfirmation ==
    [][ /\ RouteWrites =>
              /\ written'[1].action = "commit"
              /\ written'[1].confirmed = JsTrue
              /\ written'[1].content \notin { Null, "", JsTrue, JsFalse }
              /\ remote'.content = written'[1].content
        /\ remote'.content # remote.content =>
              RouteWrites \/ remote'.content = "# Theirs"
        /\ PageSendsCommit => commitConfirmed /\ request'[1].confirmed = JsTrue
        /\ RouteTakesUnconfirmed =>
              /\ response' # <<>>
              /\ response'[1].error # Null
              /\ response'[1].status >= 400
              /\ ~response'[1].success
              /\ route' = <<>>
              /\ remote' = remote
              /\ written' = written ]_vars

\* the page has committed the markdown after the user checked the box, and
\* another client was refused for sending the string "true"
C25_Witness ==
    /\ written # <<>>
    /\ written[1].origin = "ui"
    /\ written[1].content = markdown
    /\ remote.content = markdown
    /\ commitState.step = "success"

C25_WitnessRefused ==
    /\ response # <<>>
    /\ response[1].to = "api"
    /\ response[1].error = "Explicit confirmation required. Set confirmed: true"
    /\ written = <<>>

\* C29: a commit of the page replaces no version of README.md but the one
\* that the check step fetched and the diff preview showed.
C29_CommitReplacesShownVersion ==
    (written # <<>> /\ written[1].origin = "ui") =>
        written[1].replaced = written[1].shown

\* the README changed on GitHub after the check and the commit replaced it
C29_NewerVersionOverwritten ==
    /\ written # <<>>
    /\ written[1].origin = "ui"
    /\ written[1].shown = 1
    /\ written[1].replaced = 2
    /\ remote.content = markdown

----------------------------------------------------------------------------
(* Properties of the live preview (specification SpecPreview) *)

\* no debounce timeout is pending and every request has been answered
Quiescent == timer = <<>> /\ generating = <<>>

\* C30: once no timeout is pending and every generate-readme request has
\* been answered, the markdown shown is the README of the current inputs.
C30_PreviewShowsLatestInputs ==
    (pc = "ui" /\ Quiescent) => markdown = formatReadme(inputs)

\* the answer to the request made with the first inputs arrived after the
\* answer to the request made with the edited ones, and is what is shown
C30_StaleResponseShown ==
    /\ pc = "ui"
    /\ Quiescent
    /\ ~loading
    /\ inputs.username = << "o", "c", "t" >>
    /\ markdown = formatReadme(defaultInputs)
    /\ markdown # formatReadme(inputs)

====
